---- MODULE Spec2Model ----
(***************************************************************************)
(* LightLightShow: audio-reactive DMX / Art-Net lighting controller.       *)
(*                                                                         *)
(* The module models the parts of the repository, each with its own        *)
(* specification over the shared variables:                                *)
(*   SpecCodec  the Art-Net encoder (ArtNetClient.send_dmx), the legacy    *)
(*              encoder and the receiver of src/artnet.py                  *)
(*   SpecDmx    the DMXController universe and its writers                 *)
(*   SpecSched  sequences, kick flashes and the flash tick of the          *)
(*              ArtNetManager / SequenceManager, with their threads        *)
(*   SpecKick   the kick detector of src/audio/kick_detector.py            *)
(*   SpecSeq    one sequence followed through SequenceManager's loop       *)
(*   SpecPaint  the channel scaling of SceneManager                        *)
(*   SpecThresh the thresholds of AudioProcessor and their automatic       *)
(*              adaptation                                                 *)
(*   SpecAudio  the fade-to-black and sustained-level detectors of         *)
(*              AudioProcessor.compute_levels and their listeners          *)
(*   SpecFlash  the rotation of the flash scenes of KickFlashManager       *)
(*   SpecPeak   the kick detector feeding AudioProcessor's peak event      *)
(*   SpecRefresh the refresh thread of DMXController and the shutdown      *)
(*   SpecFixture fixture descriptors, their validation, the write of a     *)
(*              fixture's channels and the read-back of its values         *)
(*   SpecNames  calls that name a scene or a sequence the configuration    *)
(*              does not hold                                              *)
(*   SpecRetry  the refresh thread on a network that may refuse a frame    *)
(*   SpecSens   KickDetector.adjust_sensitivity                            *)
(*   SpecLock   buffer_lock between the refresh thread, the handlers of    *)
(*              the audio thread and a writer                              *)
(*   SpecThreads the life of the sequence thread: its starts, its stop     *)
(*              and ArtNetManager.stop                                     *)
(***************************************************************************)
EXTENDS Integers, Sequences, FiniteSets, TLC

VARIABLES
    socket_open,          \* ArtNetClient.socket is not None
    tx_call,              \* arguments of the latest encoder call
    wire,                 \* datagrams handed to socket.sendto by that call
    send_result,          \* what the call returned
    rx_datagram,          \* receiver: `data` of the latest recvfrom
    dmx_receive_buffer,   \* receiver: ArtNetManager.dmx_receive_buffer
    dmx_buffer,           \* DMXController.dmx_buffer, cell index 0..511
    running,              \* SequenceManager.running
    active_sequences,     \* SequenceManager.active_sequences: band -> seq_info
    loop_elapsed,         \* time.time() - SequenceManager._last_loop_time, capped
    seq_pc,               \* where the sequence thread is in _sequence_loop
    seq_info,             \* the sequence thread's locals for the current iteration
    flash_priority_system,\* ArtNetManager.flash_priority_system
    fixtures_decay,       \* the 'decay' entry of each fixture of fixtures_config
    main_pc,              \* the UI thread: idle, or back from send_kick_flash
    kick_result,          \* what send_kick_flash returned
    target_channels,      \* send_kick_flash: target_channels computed per fixture
    librosa_available,    \* KickDetector.librosa_available
    env_history,          \* KickDetector.env_history, deque(maxlen=10)
    last_kick_time,       \* time.time() - KickDetector.last_kick_time, capped
    last_process_time,    \* time.time() - KickDetector._last_process_time, capped
    recent_kicks,         \* ages of the reported kicks younger than refractory
    det_result,           \* the dict process_block returned
    blocks,               \* number of process_block calls so far
    det_params,           \* KickDetector.threshold, .min_energy and .refractory
    auto_thresholds,      \* AudioProcessor.auto_thresholds: band -> value, auto, history
    fade_detection,       \* AudioProcessor.fade_detection, times relative to now
    sustained_detection,  \* AudioProcessor.sustained_detection
    aud_events,           \* events triggered by the latest audio chunk, in order
    chunks,               \* number of audio chunks processed so far
    aud_call,             \* the latest chunk: seconds since the one before, levels
    paint_args,           \* scene value, intensity and multiplier of the latest paint
    paint_value,          \* the channel value that paint produced
    kick_flash_config,    \* KickFlashManager.config and current_index
    flash_log,            \* the latest scenes get_next_flash_scene returned to a direct caller
    refresh_running,      \* DMXController.refresh_running
    last_sent_buffer,     \* DMXController.last_sent_buffer
    refresh_pc,           \* the refresh thread: asleep, past the while test, or ended
    clock,                \* time.time() % 1.0 in ticks
    frame_gap,            \* ticks since the refresh thread last emitted a frame, capped
    last_frame,           \* the latest frame on the wire: none, zero or nonzero
    stop_pc,              \* the main thread's position in ArtNetManager.stop
    api_call,             \* the latest call of a method of the managers: its arguments
                          \* and what it returned
    buffer_lock,          \* DMXController.buffer_lock: the thread that holds it, or free
    audio_pc,             \* the audio thread's position in SequenceManager.stop_sequence
    sequence_thread,      \* SequenceManager.sequence_thread: the latest Thread, 0 for None
    loop_pc,              \* each Thread's position in _sequence_loop
    call_pc               \* each caller's position in start_sequence, start_sequence_thread
                          \* or stop_sequence_thread

codecVars == <<socket_open, tx_call, wire, send_result, rx_datagram, dmx_receive_buffer>>

schedVars == <<running, active_sequences, loop_elapsed, seq_pc, seq_info,
               flash_priority_system, fixtures_decay, main_pc, kick_result,
               target_channels>>

detVars == <<librosa_available, env_history, last_kick_time, last_process_time,
             recent_kicks, det_result, blocks, det_params>>

audVars == <<auto_thresholds, fade_detection, sustained_detection, aud_events, chunks,
            aud_call>>
paintVars == <<paint_args, paint_value>>
flashVars == <<kick_flash_config, flash_log>>
refreshVars == <<refresh_running, last_sent_buffer, refresh_pc, clock, frame_gap, last_frame,
                 stop_pc>>
apiVars == <<api_call>>
lockVars == <<buffer_lock, audio_pc>>
threadVars == <<sequence_thread, loop_pc, call_pc>>
otherVars == <<schedVars, detVars, audVars, paintVars, flashVars, refreshVars, apiVars,
               lockVars, threadVars>>

vars == <<codecVars, dmx_buffer, schedVars, detVars, audVars, paintVars, flashVars, refreshVars,
          apiVars, lockVars, threadVars>>

\* ------------------------------------------------------------------------
\* Program constants
\* ------------------------------------------------------------------------
DmxSize == 512
HeaderSize == 18
OpDmx == 20480
ProtVer == 14
ConfigUniverse == 0
RecvMax == 1024

Min(a, b) == IF a < b THEN a ELSE b
Max(a, b) == IF a > b THEN a ELSE b

\* ------------------------------------------------------------------------
\* Bounds of the inputs
\* ------------------------------------------------------------------------
ExtraLen == 1           \* how far past 512 an input array may reach
SpikePos == 4           \* index (1-based) of the varied cell after the head
StaleByte == 7          \* content of a receive buffer that was filled before

Universes == {0, 1, 256, 65535, 65536, 0 - 1}
ByteInputs == {0 - 1, 0, 255, 300}
DataLens == {0, 3, DmxSize, DmxSize + ExtraLen}
Heads == {<< >>, <<255, 128, 64>>}
Kinds == {"ndarray", "list", "other"}

\* an input array: a literal head, one varied cell, zeros elsewhere
InData(len, head, pos, v) ==
    [k \in 1..len |-> IF k <= Len(head) THEN head[k]
                      ELSE IF k = pos THEN v ELSE 0]

DataInputs ==
    {InData(len, head, pos, v) :
        len \in DataLens, head \in Heads,
        pos \in {SpikePos, DmxSize, DmxSize + ExtraLen}, v \in ByteInputs}

\* ------------------------------------------------------------------------
\* struct.pack / unpack, numpy casts
\* ------------------------------------------------------------------------
PackOk16(x) == x >= 0 /\ x <= 65535
U16LE(x) == <<x % 256, x \div 256>>
U16BE(x) == <<x \div 256, x % 256>>
UnpackLE(b, i) == b[i + 1] + 256 * b[i + 2]    \* struct.unpack('<H', b[i:i+2])
AsUint8(v) == v % 256                          \* ndarray.astype(np.uint8)
Clamp255(v) == Max(0, Min(255, v))
ArtNetHeader == <<65, 114, 116, 45, 78, 101, 116, 0>>
Zeros(n) == [k \in 1..n |-> 0]
Take(s, n) == SubSeq(s, 1, Min(Len(s), n))

\* ------------------------------------------------------------------------
\* ArtNetClient.send_dmx
\* ------------------------------------------------------------------------
\* the conversion as it would be without the [:512] of the list branch
ClientConvertNoTruncation(kind, data) ==
    IF kind = "ndarray" THEN [k \in 1..Min(Len(data), DmxSize) |-> AsUint8(data[k])]
    ELSE IF kind = "list" THEN data
    ELSE Zeros(DmxSize)

ClientConvert(kind, data) ==
    IF kind = "ndarray" THEN [k \in 1..Min(Len(data), DmxSize) |-> AsUint8(data[k])]
    ELSE IF kind = "list" THEN Take(data, DmxSize)
    ELSE Zeros(DmxSize)

ClientPad(d) == IF Len(d) < DmxSize THEN d \o Zeros(DmxSize - Len(d)) ELSE d

\* the length field as the legacy encoder packs it, little-endian
ClientLengthFieldLE == U16LE(DmxSize)

ClientLengthField == U16BE(DmxSize)

ClientPacket(universe, kind, data) ==
    LET dmx_data == ClientPad(ClientConvert(kind, data)) IN
    ArtNetHeader \o U16LE(OpDmx) \o U16BE(ProtVer) \o <<0>> \o <<0>>
        \o U16LE(universe) \o ClientLengthField
        \o [k \in 1..Len(dmx_data) |-> Clamp255(dmx_data[k])]

\* the datagrams handed to sendto and the value returned; the first sendto
\* goes to the target address, the second to loopback; net_ok = FALSE is a
\* loopback sendto that raises
ClientSend(sock, universe, kind, data, net_ok) ==
    IF ~sock \/ ~PackOk16(universe)
    THEN [wire |-> << >>, ok |-> FALSE]
    ELSE LET packet == ClientPacket(universe, kind, data) IN
         IF net_ok THEN [wire |-> <<packet, packet>>, ok |-> TRUE]
         ELSE [wire |-> <<packet>>, ok |-> FALSE]

ClientSendDmx(universe, kind, data, net_ok) ==
    /\ tx_call.enc = "client"
    /\ universe = tx_call.universe /\ kind = tx_call.kind /\ data = tx_call.data
    /\ \E sent \in {ClientSend(socket_open, universe, kind, data, net_ok)} :
            /\ wire' = sent.wire
            /\ send_result' = sent.ok
    /\ UNCHANGED <<socket_open, tx_call, rx_datagram, dmx_receive_buffer, dmx_buffer>>
    /\ UNCHANGED otherVars

ClientClose ==
    /\ socket_open
    /\ socket_open' = FALSE
    /\ UNCHANGED <<tx_call, wire, send_result, rx_datagram, dmx_receive_buffer, dmx_buffer>>
    /\ UNCHANGED otherVars

\* ------------------------------------------------------------------------
\* src/artnet.py: ArtNetManager.send_dmx (legacy encoder) and _receive_loop
\* ------------------------------------------------------------------------
BytesOk(data) == \A k \in 1..Len(data) : data[k] >= 0 /\ data[k] <= 255

LegacyPacket(universe, data) ==
    LET head == Take(data, DmxSize)
        dmx_data == head \o Zeros(DmxSize - Len(head)) IN
    ArtNetHeader \o U16LE(OpDmx) \o U16LE(ProtVer) \o <<0>> \o <<0>>
        \o <<universe % 256>> \o <<(universe \div 256) % 256>>
        \o U16LE(Len(dmx_data)) \o dmx_data

LegacySendDmx(universe, data, net_ok) ==
    /\ tx_call.enc = "legacy"
    /\ universe = tx_call.universe /\ data = tx_call.data
    /\ IF ~BytesOk(Take(data, DmxSize))
       THEN wire' = << >>
       ELSE IF net_ok THEN wire' = <<LegacyPacket(universe, data), LegacyPacket(universe, data)>>
            ELSE wire' = <<LegacyPacket(universe, data)>>
    /\ send_result' = FALSE
    /\ UNCHANGED <<socket_open, tx_call, rx_datagram, dmx_receive_buffer, dmx_buffer>>
    /\ UNCHANGED otherVars

\* bytearray slice assignment buf[:len(d)] = d
SliceAssign(buf, d) == d \o SubSeq(buf, Len(d) + 1, Len(buf))

RxLength(data) == UnpackLE(data, 16)

Decode(buf, data) ==
    IF /\ Len(data) >= HeaderSize
       /\ SubSeq(data, 1, 8) = ArtNetHeader
       /\ UnpackLE(data, 8) = OpDmx
       /\ (UnpackLE(data, 14) % 256) = ConfigUniverse
    THEN SliceAssign(buf, SubSeq(data, 19, Min(Len(data), HeaderSize + RxLength(data))))
    ELSE buf

ReceiveLoop ==
    /\ wire # << >>
    /\ LET data == Take(Head(wire), RecvMax) IN
        /\ rx_datagram' = data
        /\ dmx_receive_buffer' = Decode(dmx_receive_buffer, data)
    /\ wire' = Tail(wire)
    /\ UNCHANGED <<socket_open, tx_call, send_result, dmx_buffer>>
    /\ UNCHANGED otherVars

\* ------------------------------------------------------------------------
\* DMXController: the universe and its writers
\* ------------------------------------------------------------------------
Colors == <<"red", "green", "blue", "white">>
NoCall == [enc |-> "none", universe |-> 0, kind |-> "other", data |-> << >>]

DmxInit == dmx_buffer = [i \in 0..(DmxSize - 1) |-> 0]

CodecIdle ==
    /\ socket_open = TRUE
    /\ tx_call = NoCall
    /\ wire = << >>
    /\ send_result = FALSE
    /\ rx_datagram = << >>
    /\ dmx_receive_buffer = Zeros(DmxSize)

\* ------------------------------------------------------------------------
\* Default configuration (FileManager) and the state after construction
\* ------------------------------------------------------------------------
ColorSet == {"red", "green", "blue", "white"}
Chan(r, g, b, w) ==
    [c \in ColorSet |-> CASE c = "red" -> r [] c = "green" -> g
                          [] c = "blue" -> b [] c = "white" -> w]
Black == Chan(0, 0, 0, 0)
StdOffsets == Chan(1, 2, 3, 4)

FixturesConfig ==
    << [name |-> "Par LED Bass 1", startChannel |-> 1, channels |-> StdOffsets,
        band |-> "Bass", responds_to_kicks |-> TRUE],
       [name |-> "Par LED Bass 2", startChannel |-> 21, channels |-> StdOffsets,
        band |-> "Bass", responds_to_kicks |-> TRUE],
       [name |-> "Par LED Low-Mid 1", startChannel |-> 5, channels |-> StdOffsets,
        band |-> "Low-Mid", responds_to_kicks |-> FALSE] >>

FixtureNames == {FixturesConfig[i].name : i \in DOMAIN FixturesConfig}
FixtureByName(n) == CHOOSE f \in {FixturesConfig[i] : i \in DOMAIN FixturesConfig} : f.name = n

\* scene channels under the long colour names of SceneManager.channel_mapping;
\* decay in milliseconds
ScenesConfig ==
    [n \in {"flash-white", "flash-red", "band-bass", "band-mid", "band-treble", "off"} |->
        CASE n = "flash-white" -> [channels |-> Chan(255, 255, 255, 255), decay |-> 200]
          [] n = "flash-red"   -> [channels |-> Chan(255, 0, 0, 0), decay |-> 200]
          [] n = "band-bass"   -> [channels |-> Chan(255, 0, 0, 0)]
          [] n = "band-mid"    -> [channels |-> Chan(0, 255, 0, 0)]
          [] n = "band-treble" -> [channels |-> Chan(0, 0, 255, 0)]
          [] n = "off"         -> [channels |-> Black]]

\* durations in milliseconds, multipliers and intensities in percent.
\* bass-pulse is the default sequence; mid-glow stands for a sequence of
\* sequences.json that does not loop (the file may hold any sequence).
SequencesConfig ==
    [n \in {"bass-pulse", "mid-glow"} |->
        CASE n = "bass-pulse" ->
               [steps |-> << [scene |-> "band-bass", duration |-> 500,
                              intensity_multiplier |-> 100],
                             [scene |-> "band-bass", duration |-> 250,
                              intensity_multiplier |-> 60] >>,
                loop |-> TRUE, base_intensity |-> 40]
          [] n = "mid-glow" ->
               [steps |-> << [scene |-> "band-mid", duration |-> 250,
                              intensity_multiplier |-> 100] >>,
                loop |-> FALSE, base_intensity |-> 40]]

band_to_sequence ==
    [b \in {"Bass", "Low-Mid", "High-Mid", "Treble"} |->
        CASE b = "Bass" -> "bass-pulse" [] b = "Low-Mid" -> "mid-glow"
          [] b = "High-Mid" -> "highmid-wave" [] b = "Treble" -> "treble-sparkle"]

KickFlashConfig ==
    [enabled |-> TRUE, intensity |-> 80, mode |-> "alternate", scenes |-> <<"flash-white">>,
     alternate_index |-> 0, current_index |-> 0]

\* the scheduler's clock counts units of 50 ms, the detector's units of 5 ms
TimeUnitMs == 50
Units(ms) == ms \div TimeUnitMs
LoopMinMs == 50
DetUnitMs == 5
RateLimitMs == 50
RefractoryMs == 150
Past == 0 - 1

\* elapsed times are kept up to the largest value any comparison looks at
StepCap == Units(500)
KickCap == (RefractoryMs \div DetUnitMs) + 1
ProcessCap == RateLimitMs \div DetUnitMs

NoDecay == [priority_flash |-> FALSE, ticks |-> 0, duration |-> 0,
            start_channels |-> Black, target_channels |-> Black, present |-> FALSE]
NoSeqInfo == [band |-> "", sequence |-> "", fixtures |-> << >>, step |-> 0,
              intensity |-> 0, stale |-> FALSE, available |-> << >>]
NoTarget == [f \in {} |-> Black]
NoSequences == [b \in {} |-> NoSeqInfo]
NoResult == [kick |-> FALSE, quick |-> FALSE]

SchedIdle ==
    /\ running = FALSE
    /\ active_sequences = NoSequences
    /\ loop_elapsed = Units(LoopMinMs)
    /\ seq_pc = "loop"
    /\ seq_info = NoSeqInfo
    /\ flash_priority_system =
          [kick_flash_active |-> FALSE, kick_flash_end_time |-> Past,
           priority_fixtures |-> {}, sequence_pause |-> {}]
    /\ fixtures_decay = [f \in FixtureNames |-> NoDecay]
    /\ main_pc = "idle"
    /\ kick_result = FALSE
    /\ target_channels = NoTarget

\* threshold in units of 0.001, min_energy of 0.00001, refractory in ms
DefaultParams == [threshold |-> 150, min_energy |-> 500, refractory |-> 150]

DetIdle ==
    /\ det_params = DefaultParams
    /\ librosa_available = FALSE
    /\ env_history = << >>
    /\ last_kick_time = KickCap
    /\ last_process_time = ProcessCap
    /\ recent_kicks = << >>
    /\ det_result = NoResult
    /\ blocks = 0

\* the bands the audio model follows, of the four of AudioProcessor.freq_ranges
AudioBands == {"Bass", "Low-Mid"}
BandOrder == <<"Bass", "Low-Mid">>

\* levels and thresholds in thousandths, times of the fade detector in seconds
DefaultThreshold(band) == IF band = "Bass" THEN 300 ELSE 250

\* the audio processor after n chunks of one level, taken at a steady pace
\* faster than a second, where the level is neither quiet nor sustained
\* (n = 0: after construction)
AudioAfter(n, level) ==
    /\ auto_thresholds =
          [b \in AudioBands |-> [value |-> DefaultThreshold(b), auto |-> TRUE,
                                 history |-> [k \in 1..n |-> level]]]
    /\ fade_detection =
          [b \in AudioBands |-> [silence_duration |-> 0, in_fade |-> FALSE,
                                 fade_elapsed |-> 0]]
    /\ sustained_detection =
          [b \in AudioBands |-> [sustained |-> FALSE, intensity |-> 0,
                                 level_history |-> [k \in 1..Min(n, 40) |-> level]]]
    /\ aud_events = << >>
    /\ chunks = 0
    /\ aud_call = [dt |-> 0, levels |-> [b \in AudioBands |-> level]]

AudIdle == AudioAfter(0, 0)

PaintIdle ==
    /\ paint_args = [v |-> 0, i |-> 0, m |-> 0]
    /\ paint_value = 0

\* KickFlashManager after construction without a kick_flash_config.json
FlashIdle == kick_flash_config = KickFlashConfig /\ flash_log = << >>

\* the refresh thread in ticks of 1/60 s: sleep_time is 1 / refresh_rate
RefreshRate == 30
TicksPerSecond == 60
SleepTicks == TicksPerSecond \div RefreshRate
MaxOverhead == 1        \* ticks a turn of the refresh loop takes beyond its sleep
GapCap == TicksPerSecond + SleepTicks + MaxOverhead + 1

\* DMXController after construction, the refresh thread in its sleep at the
\* start of a second
RefreshAt(phase) ==
    /\ refresh_running = TRUE
    /\ last_sent_buffer = [i \in 0..(DmxSize - 1) |-> 0]
    /\ refresh_pc = "sleep"
    /\ clock = phase
    /\ frame_gap = 0
    /\ last_frame = "none"
    /\ stop_pc = "run"
RefreshIdle == RefreshAt(0)

\* nothing has been called yet
NoFixture == [name |-> ""]
NoReturn == [op |-> "none", fixture |-> NoFixture, channels |-> Black, ok |-> FALSE,
             values |-> Black]
ApiIdle == api_call = NoReturn

\* nobody holds buffer_lock and the audio thread is in no handler
MaxThreads == 3
ThreadIds == 1..MaxThreads
Callers == {"ui", "audio"}
AudioIdlePc == [at |-> "idle", band |-> "", done |-> 0]
LockIdle ==
    /\ buffer_lock = "free"
    /\ audio_pc = AudioIdlePc

\* SequenceManager after construction: sequence_thread is None
ThreadIdle ==
    /\ sequence_thread = 0
    /\ loop_pc = [t \in ThreadIds |-> "unborn"]
    /\ call_pc = [c \in Callers |-> "idle"]
ConcIdle == LockIdle /\ ThreadIdle

\* one colour of apply_channels_to_fixture: the derived index and its guard
BufferIndex(fixture, color) == fixture.startChannel + fixture.channels[color] - 1 - 1

\* the write without the range test of line 135: the index is taken as
\* numpy takes it, counted from the end when negative, and a colour past
\* the end is written to the last cell
ApplyOneUnchecked(buf, fixture, color, value) ==
    IF color \in DOMAIN fixture.channels
    THEN LET idx == BufferIndex(fixture, color)
             at == IF idx < 0 THEN idx + DmxSize ELSE Min(idx, DmxSize - 1)
         IN  [buf EXCEPT ![at] = Clamp255(value)]
    ELSE buf

ApplyOne(buf, fixture, color, value) ==
    IF color \in DOMAIN fixture.channels
    THEN IF 0 <= BufferIndex(fixture, color) /\ BufferIndex(fixture, color) < DmxSize
         THEN [buf EXCEPT ![BufferIndex(fixture, color)] = Clamp255(value)]
         ELSE buf
    ELSE buf

\* the loop over channels.items(), in the order the callers build the dict
RECURSIVE ApplyFrom(_, _, _, _)
ApplyFrom(buf, fixture, channels, n) ==
    IF n > Len(Colors) THEN buf
    ELSE ApplyFrom(IF Colors[n] \in DOMAIN channels
                   THEN ApplyOne(buf, fixture, Colors[n], channels[Colors[n]])
                   ELSE buf,
                   fixture, channels, n + 1)

ApplyChannels(buf, fixture, channels) == ApplyFrom(buf, fixture, channels, 1)

BufferAsData(buf) == [k \in 1..DmxSize |-> buf[k - 1]]
DataAsBuffer(data) == [i \in 0..(DmxSize - 1) |-> data[i + 1]]

SetChannel(channel, value) ==
    /\ dmx_buffer' = IF 1 <= channel /\ channel <= DmxSize
                     THEN [dmx_buffer EXCEPT ![channel - 1] = Clamp255(value)]
                     ELSE dmx_buffer
    /\ UNCHANGED <<codecVars, otherVars>>

ApplyChannelsToFixture(fixture, channels) ==
    /\ dmx_buffer' = ApplyChannels(dmx_buffer, fixture, channels)
    /\ UNCHANGED <<codecVars, otherVars>>

ClearAllChannels ==
    /\ dmx_buffer' = [i \in 0..(DmxSize - 1) |-> 0]
    /\ UNCHANGED <<codecVars, otherVars>>

\* DMXController.send_dmx: a list is converted with np.array(data, dtype=np.uint8),
\* which wraps an out-of-range value modulo 256 or raises OverflowError,
\* depending on the numpy release (np_wraps); an ndarray is taken as it is.
DmxConvert(kind, data) ==
    IF kind = "list" THEN [k \in 1..Len(data) |-> AsUint8(data[k])]
    ELSE IF kind = "ndarray" THEN data
    ELSE Zeros(DmxSize)

DmxSendDmx(universe, kind, data, np_wraps, net_ok) ==
    IF kind = "list" /\ ~BytesOk(data) /\ ~np_wraps
    THEN UNCHANGED vars
    ELSE \E arr \in {DmxConvert(kind, data)} :
         \E sent \in {ClientSend(socket_open, universe, "ndarray", arr, net_ok)} :
         /\ dmx_buffer' = IF Len(arr) = DmxSize THEN DataAsBuffer(arr) ELSE dmx_buffer
         /\ wire' = sent.wire
         /\ send_result' = sent.ok
         /\ UNCHANGED <<socket_open, tx_call, rx_datagram, dmx_receive_buffer>>
         /\ UNCHANGED otherVars

\* inputs of the universe specification
OddOffsets == [c \in {"red", "green", "blue", "white"} |->
                 CASE c = "red" -> 0 [] c = "green" -> 2 [] c = "blue" -> DmxSize + 1
                   [] c = "white" -> 4]
FixtureInputs ==
    {[startChannel |-> st, channels |-> off] :
        st \in {0 - 1, 1, DmxSize}, off \in {StdOffsets, OddOffsets}}
ChannelInputs == {[c \in {"red", "green", "blue", "white"} |-> v] : v \in ByteInputs}
ChannelNumbers == {0, 1, DmxSize, DmxSize + 1}
DmxDataInputs ==
    {InData(len, << >>, SpikePos, v) : len \in {3, DmxSize, DmxSize + ExtraLen}, v \in ByteInputs}

InitDmx == CodecIdle /\ DmxInit /\ SchedIdle /\ DetIdle /\ AudIdle /\ PaintIdle /\ FlashIdle /\ RefreshIdle /\ ApiIdle /\ ConcIdle

NextDmx ==
    \/ \E ch \in ChannelNumbers, v \in ByteInputs : SetChannel(ch, v)
    \/ \E f \in FixtureInputs, c \in ChannelInputs : ApplyChannelsToFixture(f, c)
    \/ ClearAllChannels
    \/ \E kind \in {"list", "ndarray"}, data \in DmxDataInputs, w \in BOOLEAN, ok \in BOOLEAN :
            DmxSendDmx(ConfigUniverse, kind, data, w, ok)

SpecDmx == InitDmx /\ [][NextDmx]_vars

\* C4 (as claimed): after any sequence of set_channel, apply_channels_to_fixture,
\* clear_all_channels and send_dmx calls the universe has exactly the cells
\* 0..511 and every cell holds a value in [0,255].
C4_UniverseInRange ==
    /\ DOMAIN dmx_buffer = 0..511
    /\ \A i \in DOMAIN dmx_buffer : dmx_buffer[i] >= 0 /\ dmx_buffer[i] <= 255

\* ------------------------------------------------------------------------
\* Specification of the codec
\* ------------------------------------------------------------------------
InitCodec ==
    /\ socket_open \in BOOLEAN
    /\ tx_call \in [enc : {"client", "legacy"}, universe : Universes,
                     kind : Kinds, data : DataInputs]
    /\ tx_call.enc = "legacy" => tx_call.kind = "list"
    /\ wire = << >>
    /\ send_result = FALSE
    /\ rx_datagram = << >>
    /\ dmx_receive_buffer \in {Zeros(DmxSize), [k \in 1..DmxSize |-> StaleByte]}
    /\ DmxInit /\ SchedIdle /\ DetIdle /\ AudIdle /\ PaintIdle /\ FlashIdle /\ RefreshIdle /\ ApiIdle /\ ConcIdle

\* the arguments of the call are drawn once, in InitCodec
NextCodec ==
    \/ \E ok \in BOOLEAN :
            ClientSendDmx(tx_call.universe, tx_call.kind, tx_call.data, ok)
    \/ \E ok \in BOOLEAN :
            LegacySendDmx(tx_call.universe, tx_call.data, ok)
    \/ ClientClose
    \/ ReceiveLoop

SpecCodec == InitCodec /\ [][NextCodec]_vars

\* ------------------------------------------------------------------------
\* Claims about the codec
\* ------------------------------------------------------------------------
FromClient == tx_call.enc = "client" /\ tx_call.kind \in {"ndarray", "list"}

\* C1: every datagram ArtNetClient.send_dmx hands to the socket is exactly
\* 530 bytes, 18 header bytes followed by 512 data bytes; each byte lies in
\* [0,255]; an input longer than 512 is truncated, a shorter one is padded
\* with zeros, and an in-range input byte is carried unchanged.
C1_FrameShape ==
    tx_call.enc = "client" =>
        \A i \in 1..Len(wire) :
            /\ Len(wire[i]) = 530
            /\ \A k \in 1..530 : wire[i][k] >= 0 /\ wire[i][k] <= 255
            /\ tx_call.kind \in {"ndarray", "list"} =>
                  \A k \in 1..512 :
                      /\ k > Len(tx_call.data) => wire[i][18 + k] = 0
                      /\ (k <= Len(tx_call.data) /\ tx_call.data[k] \in 0..255)
                            => wire[i][18 + k] = tx_call.data[k]

C1_Witness ==
    /\ FromClient /\ tx_call.kind = "list"
    /\ Len(wire) = 2
    /\ Len(tx_call.data) > 512
    /\ \E k \in 1..512 : tx_call.data[k] > 255

C3_RoundTrip ==
    (/\ FromClient
     /\ rx_datagram # << >>
     /\ tx_call.universe = ConfigUniverse
     /\ Len(tx_call.data) = 512 /\ BytesOk(tx_call.data))
        => dmx_receive_buffer = tx_call.data

\* ------------------------------------------------------------------------
\* Scheduler: SequenceManager and the flash part of ArtNetManager
\* ------------------------------------------------------------------------
SetEntry(fn, k, v) == [x \in (DOMAIN fn) \cup {k} |-> IF x = k THEN v ELSE fn[x]]
DelEntry(fn, k) == [x \in (DOMAIN fn) \ {k} |-> fn[x]]

\* FixtureManager.get_fixtures_for_band and the kick_fixtures of send_kick_flash,
\* as the names of the copies, in configuration order
BandFixtures(band) ==
    LET sel == SelectSeq(FixturesConfig, LAMBDA f : f.band = band) IN
    [i \in 1..Len(sel) |-> sel[i].name]
KickFixtures ==
    LET sel == SelectSeq(FixturesConfig, LAMBDA f : f.responds_to_kicks) IN
    [i \in 1..Len(sel) |-> sel[i].name]

\* the scaling with the product cast to a byte instead of clamped
ScaleChannelsWrapped(channels, intensity, mult) ==
    [c \in ColorSet |-> AsUint8((channels[c] * intensity * mult) \div 10000)]

\* int(value * intensity * step_multiplier), clamped; both factors in percent
ScaleChannels(channels, intensity, mult) ==
    [c \in ColorSet |-> Clamp255((channels[c] * intensity * mult) \div 10000)]

RECURSIVE ApplyToFixtures(_, _, _, _)
ApplyToFixtures(buf, names, channels, n) ==
    IF n > Len(names) THEN buf
    ELSE ApplyToFixtures(ApplyChannels(buf, FixtureByName(names[n]), channels),
                         names, channels, n + 1)

\* SceneManager.apply_scene_to_fixtures
ApplyScene(buf, scene_name, names, intensity, mult) ==
    IF scene_name \in DOMAIN ScenesConfig
    THEN ApplyToFixtures(buf, names,
                         ScaleChannels(ScenesConfig[scene_name].channels, intensity, mult), 1)
    ELSE buf

\* what a fixture shows: its four cells of the universe
FixtureCells(buf, name) ==
    [c \in ColorSet |-> buf[BufferIndex(FixtureByName(name), c)]]

\* DMXController.flush_buffer: the datagrams and the result
Flush(buf, net_ok) ==
    ClientSend(socket_open, ConfigUniverse, "ndarray", BufferAsData(buf), net_ok)

\* a dict the sequence thread still holds is no longer the band's entry
Detach(band) ==
    IF seq_pc # "loop" /\ seq_info.band = band
    THEN [seq_info EXCEPT !.stale = TRUE] ELSE seq_info

\* SequenceManager.start_sequence
StartSequence(sequence_name, band, fixtures, intensity) ==
    IF sequence_name \notin DOMAIN SequencesConfig
    THEN UNCHANGED <<codecVars, dmx_buffer, schedVars, detVars, audVars, paintVars, flashVars,
                     refreshVars, lockVars, threadVars>>
    ELSE /\ active_sequences' =
               SetEntry(active_sequences, band,
                        [sequence |-> sequence_name,
                         fixtures |-> fixtures,
                         step_index |-> 0, step_elapsed |-> 0,
                         intensity |-> intensity, base_intensity |-> intensity])
         /\ running' = TRUE
         /\ seq_info' = Detach(band)
         /\ UNCHANGED <<codecVars, dmx_buffer, detVars, audVars, paintVars, flashVars,
                        refreshVars, lockVars, threadVars, loop_elapsed, seq_pc, flash_priority_system,
                        fixtures_decay, main_pc, kick_result, target_channels>>

\* ArtNetManager.start_sequence_for_band
StartSequenceForBand(band, intensity) ==
    IF BandFixtures(band) = << >>
    THEN UNCHANGED vars
    ELSE /\ StartSequence(band_to_sequence[band], band, BandFixtures(band), intensity)
         /\ UNCHANGED apiVars

\* SequenceManager.stop_sequence
StopSequence(band, net_ok) ==
    IF band \notin DOMAIN active_sequences
    THEN UNCHANGED vars
    ELSE \E buf \in {ApplyToFixtures(dmx_buffer, active_sequences[band].fixtures, Black, 1)} :
         \E sent \in {Flush(buf, net_ok)} :
         /\ dmx_buffer' = buf
         /\ wire' = sent.wire
         /\ send_result' = sent.ok
         /\ active_sequences' = DelEntry(active_sequences, band)
         /\ seq_info' = Detach(band)
         /\ UNCHANGED <<socket_open, tx_call, rx_datagram, dmx_receive_buffer, detVars, audVars, paintVars, flashVars, refreshVars, apiVars, lockVars, threadVars,
                        running, loop_elapsed, seq_pc, flash_priority_system,
                        fixtures_decay, main_pc, kick_result, target_channels>>

\* the rule of the pre-fade releases: the base intensity is always the floor
FinalIntensityFloorOnly(intensity, base_intensity) == Max(intensity, base_intensity)

\* final_intensity of update_sequence_intensity, intensities in percent
FinalIntensity(intensity, base_intensity) ==
    IF 2 * intensity < base_intensity THEN intensity
    ELSE Max(intensity, base_intensity)

\* SequenceManager.update_sequence_intensity
UpdateSequenceIntensity(band, intensity) ==
    /\ active_sequences' =
          IF band \in DOMAIN active_sequences
          THEN [active_sequences EXCEPT ![band].intensity =
                    FinalIntensity(intensity, active_sequences[band].base_intensity)]
          ELSE active_sequences
    /\ UNCHANGED <<codecVars, dmx_buffer, detVars, audVars, paintVars, flashVars, refreshVars, apiVars, lockVars, threadVars, running, loop_elapsed, seq_pc,
                   seq_info, flash_priority_system, fixtures_decay, main_pc,
                   kick_result, target_channels>>

\* _sequence_loop, from the top of an iteration to the step being found due.
\* The drivers keep one band active at a time, so the snapshot
\* list(active_sequences.items()) holds at most one band.
SeqLoopBegin ==
    /\ running /\ seq_pc = "loop"
    /\ DOMAIN active_sequences # {}
    /\ loop_elapsed >= Units(LoopMinMs)
    /\ loop_elapsed' = 0
    /\ \E band \in DOMAIN active_sequences :
        LET rec == active_sequences[band]
            seq == SequencesConfig[rec.sequence]
            wrapped == rec.step_index >= Len(seq.steps)
            idx == IF wrapped THEN 0 ELSE rec.step_index
        IN  IF wrapped /\ ~seq.loop
            THEN UNCHANGED <<active_sequences, seq_pc, seq_info>>
            ELSE /\ active_sequences' =
                        IF wrapped THEN [active_sequences EXCEPT ![band].step_index = 0]
                        ELSE active_sequences
                 /\ IF rec.step_elapsed >= Units(seq.steps[idx + 1].duration)
                    THEN /\ seq_pc' = "filter"
                         /\ seq_info' = [band |-> band, sequence |-> rec.sequence,
                                         fixtures |-> rec.fixtures, step |-> idx,
                                         intensity |-> rec.intensity, stale |-> FALSE,
                                         available |-> << >>]
                    ELSE UNCHANGED <<seq_pc, seq_info>>
    /\ UNCHANGED <<codecVars, dmx_buffer, detVars, audVars, paintVars, flashVars, refreshVars, apiVars, lockVars, threadVars, running, flash_priority_system,
                   fixtures_decay, main_pc, kick_result, target_channels>>

\* _apply_sequence_step: the fixtures left after the three checks. The
\* flash_override and sequence_paused marks are only ever put on the copies
\* send_kick_flash gets from get_all_fixtures, never on the sequence's
\* fixtures, so check 2 (the priority set) is the one that can hold.
SeqFilter ==
    /\ seq_pc = "filter"
    /\ \E available \in {SelectSeq(seq_info.fixtures,
                LAMBDA n : n \notin flash_priority_system.priority_fixtures)} :
        /\ seq_info' = [seq_info EXCEPT !.available = available]
        /\ seq_pc' = IF available # << >> THEN "apply" ELSE "advance"
    /\ UNCHANGED <<codecVars, dmx_buffer, detVars, audVars, paintVars, flashVars, refreshVars, apiVars, lockVars, threadVars, running, active_sequences,
                   loop_elapsed, flash_priority_system, fixtures_decay, main_pc,
                   kick_result, target_channels>>

SeqStep == SequencesConfig[seq_info.sequence].steps[seq_info.step + 1]

SeqApply ==
    /\ seq_pc = "apply"
    /\ dmx_buffer' = ApplyScene(dmx_buffer, SeqStep.scene, seq_info.available,
                                seq_info.intensity, SeqStep.intensity_multiplier)
    /\ seq_pc' = "advance"
    /\ UNCHANGED <<codecVars, detVars, audVars, paintVars, flashVars, refreshVars, apiVars, lockVars, threadVars, running, active_sequences, loop_elapsed, seq_info,
                   flash_priority_system, fixtures_decay, main_pc, kick_result,
                   target_channels>>

\* seq_info['step_index'] += 1 and last_step_time = current_time, on the dict
\* the iteration took from the snapshot
SeqAdvance ==
    /\ seq_pc = "advance"
    /\ active_sequences' =
          IF seq_info.stale THEN active_sequences
          ELSE [active_sequences EXCEPT ![seq_info.band].step_index = @ + 1,
                                        ![seq_info.band].step_elapsed = loop_elapsed]
    /\ seq_pc' = "loop"
    /\ seq_info' = NoSeqInfo
    /\ UNCHANGED <<codecVars, dmx_buffer, detVars, audVars, paintVars, flashVars, refreshVars, apiVars, lockVars, threadVars, running, loop_elapsed,
                   flash_priority_system, fixtures_decay, main_pc, kick_result,
                   target_channels>>

\* 50 ms pass while the sequence thread sleeps; an iteration of the loop is
\* taken to last less than one unit
Tick ==
    /\ seq_pc = "loop"
    /\ loop_elapsed' = Min(loop_elapsed + 1, Units(LoopMinMs))
    /\ active_sequences' =
          [b \in DOMAIN active_sequences |->
              [active_sequences[b] EXCEPT !.step_elapsed = Min(@ + 1, StepCap)]]
    /\ flash_priority_system' =
          [flash_priority_system EXCEPT !.kick_flash_end_time = Max(@ - 1, Past)]
    /\ UNCHANGED <<codecVars, dmx_buffer, detVars, audVars, paintVars, flashVars, refreshVars, apiVars, lockVars, threadVars, running, seq_pc, seq_info,
                   fixtures_decay, main_pc, kick_result, target_channels>>

\* ArtNetManager._get_target_channels_for_fixture
TargetChannelsForFixture(fixture) ==
    IF fixture.band \in DOMAIN active_sequences
    THEN LET seq_rec == active_sequences[fixture.band]
             steps == SequencesConfig[seq_rec.sequence].steps
         IN  IF steps # << >> /\ seq_rec.step_index < Len(steps)
             THEN LET current_step == steps[seq_rec.step_index + 1] IN
                  IF current_step.scene \in DOMAIN ScenesConfig
                  THEN ScaleChannels(ScenesConfig[current_step.scene].channels,
                                     seq_rec.intensity, current_step.intensity_multiplier)
                  ELSE Black
             ELSE Black
    ELSE Black

\* the parameters DMXController.apply_channels_to_fixture declares, and the
\* keyword the flash code passes to it
ApplyParams == {"self", "fixture", "channels"}
ForceRaises == "force" \notin ApplyParams

SceneDecay(scene) == IF "decay" \in DOMAIN scene THEN scene.decay ELSE 200
FlashIntensity == Min(100, (kick_flash_config.intensity * 150) \div 100)
FlashChannels(scene) ==
    [c \in ColorSet |-> Min(255, (scene.channels[c] * FlashIntensity) \div 100)]

\* one turn of the loop over kick_fixtures in send_kick_flash; the decay
\* record is written to the copy of the fixture and is gone with it
KickOne(st, name, scene) ==
    IF st.raised THEN st
    ELSE LET marked ==
                [st EXCEPT !.priority_fixtures = @ \cup {name},
                           !.sequence_pause = @ \cup {name},
                           !.target = SetEntry(@, name,
                                               TargetChannelsForFixture(FixtureByName(name)))]
         IN  IF ForceRaises THEN [marked EXCEPT !.raised = TRUE]
             ELSE [marked EXCEPT !.buf = ApplyChannels(@, FixtureByName(name),
                                                       FlashChannels(scene))]

RECURSIVE KickLoop(_, _, _, _)
KickLoop(st, names, scene, n) ==
    IF n > Len(names) THEN st
    ELSE KickLoop(KickOne(st, names[n], scene), names, scene, n + 1)

\* get_next_flash_scene with the index counted on without the modulo
GetNextFlashSceneUnwrapped(cfg, pick) ==
    IF ~cfg.enabled \/ cfg.scenes = << >> THEN [scene |-> "", config |-> cfg]
    ELSE IF cfg.mode = "single" \/ Len(cfg.scenes) = 1
         THEN [scene |-> cfg.scenes[1], config |-> cfg]
    ELSE IF cfg.mode = "alternate"
         THEN [scene |-> cfg.scenes[(cfg.current_index % Len(cfg.scenes)) + 1],
               config |-> [cfg EXCEPT !.current_index = @ + 1,
                                      !.alternate_index = cfg.current_index + 1]]
    ELSE [scene |-> cfg.scenes[pick], config |-> cfg]

\* KickFlashManager.get_next_flash_scene: the scene returned ("" for None)
\* and the configuration left; pick is the position random.choice draws
GetNextFlashScene(cfg, pick) ==
    IF ~cfg.enabled \/ cfg.scenes = << >> THEN [scene |-> "", config |-> cfg]
    ELSE IF cfg.mode = "single" \/ Len(cfg.scenes) = 1
         THEN [scene |-> cfg.scenes[1], config |-> cfg]
    ELSE IF cfg.mode = "alternate"
         THEN [scene |-> cfg.scenes[(cfg.current_index % Len(cfg.scenes)) + 1],
               config |-> [cfg EXCEPT
                              !.current_index = (@ + 1) % Len(cfg.scenes),
                              !.alternate_index = (cfg.current_index + 1) % Len(cfg.scenes)]]
    ELSE IF cfg.mode = "random" THEN [scene |-> cfg.scenes[pick], config |-> cfg]
    ELSE [scene |-> cfg.scenes[1], config |-> cfg]

\* the scene the next call returns when the mode draws nothing at random
NextFlashScene == GetNextFlashScene(kick_flash_config, 1).scene

\* ArtNetManager.send_kick_flash, called from the UI thread
SendKickFlash(net_ok) ==
    /\ main_pc = "idle"
    /\ main_pc' = "kicked"
    /\ \E pick \in 1..Max(1, Len(kick_flash_config.scenes)) :
       \E next \in {IF kick_flash_config.enabled
                    THEN GetNextFlashScene(kick_flash_config, pick)
                    ELSE [scene |-> "", config |-> kick_flash_config]} :
       /\ kick_flash_config' = next.config
       /\ IF next.scene \notin DOMAIN ScenesConfig \/ KickFixtures = << >>
          THEN /\ kick_result' = FALSE
               /\ target_channels' = NoTarget
               /\ UNCHANGED <<dmx_buffer, wire, send_result, flash_priority_system>>
          ELSE \E st \in {KickLoop([priority_fixtures |-> flash_priority_system.priority_fixtures,
                                    sequence_pause |-> flash_priority_system.sequence_pause,
                                    target |-> NoTarget, buf |-> dmx_buffer, raised |-> FALSE],
                                   KickFixtures, ScenesConfig[next.scene], 1)} :
               /\ flash_priority_system' =
                     [kick_flash_active |-> TRUE,
                      kick_flash_end_time |-> Units(SceneDecay(ScenesConfig[next.scene])),
                      priority_fixtures |-> st.priority_fixtures,
                      sequence_pause |-> st.sequence_pause]
               /\ target_channels' = st.target
               /\ dmx_buffer' = st.buf
               /\ kick_result' = ~st.raised
               /\ IF st.raised THEN UNCHANGED <<wire, send_result>>
                  ELSE \E sent \in {Flush(st.buf, net_ok)} :
                           wire' = sent.wire /\ send_result' = sent.ok
    /\ UNCHANGED <<socket_open, tx_call, rx_datagram, dmx_receive_buffer, detVars, audVars,
                   paintVars, flash_log, refreshVars, apiVars, lockVars, threadVars, running, active_sequences, loop_elapsed, seq_pc,
                   seq_info, fixtures_decay>>

KickReturn ==
    /\ main_pc = "kicked"
    /\ main_pc' = "idle"
    /\ UNCHANGED <<codecVars, dmx_buffer, detVars, audVars, paintVars, flashVars, refreshVars, apiVars, lockVars, threadVars, running, active_sequences,
                   loop_elapsed, seq_pc, seq_info, flash_priority_system,
                   fixtures_decay, kick_result, target_channels>>

\* the interpolated colour of a decay in progress
Interpolate(decay) ==
    [c \in ColorSet |->
        Clamp255((decay.start_channels[c] * decay.duration
                  + (decay.target_channels[c] - decay.start_channels[c]) * decay.ticks * 20)
                 \div decay.duration)]

\* one turn of the loop of update_effects over the copies of the fixtures;
\* the copy is shallow, so a 'decay' dict of the configuration is shared
EffectsOne(st, name) ==
    LET decay == st.decay[name]
        done == decay.ticks * 20 >= decay.duration
        painted == ApplyChannels(st.buf, FixtureByName(name),
                                 IF done THEN decay.target_channels ELSE Interpolate(decay))
    IN  IF st.raised \/ ~decay.present THEN st
        ELSE IF decay.priority_flash /\ ForceRaises THEN [st EXCEPT !.raised = TRUE]
        ELSE IF done
             THEN [st EXCEPT !.buf = painted, !.updated = TRUE,
                             !.priority_fixtures =
                                 IF decay.priority_flash THEN @ \ {name} ELSE @,
                             !.sequence_pause =
                                 IF decay.priority_flash THEN @ \ {name} ELSE @]
             ELSE [st EXCEPT !.buf = painted, !.updated = TRUE,
                             !.decay[name].ticks = @ + 1]

RECURSIVE EffectsLoop(_, _)
EffectsLoop(st, n) ==
    IF n > Len(FixturesConfig) THEN st
    ELSE EffectsLoop(EffectsOne(st, FixturesConfig[n].name), n + 1)

\* ArtNetManager.update_effects, called by the UI loop every 10 ms
UpdateEffects(net_ok) ==
    /\ main_pc = "idle"
    /\ LET expired == /\ flash_priority_system.kick_flash_active
                      /\ flash_priority_system.kick_flash_end_time < 0
       IN  \E st \in {EffectsLoop([buf |-> dmx_buffer, decay |-> fixtures_decay,
                                   priority_fixtures |->
                                       IF expired THEN {}
                                       ELSE flash_priority_system.priority_fixtures,
                                   sequence_pause |-> flash_priority_system.sequence_pause,
                                   raised |-> FALSE, updated |-> FALSE], 1)} :
            /\ flash_priority_system' =
                  [flash_priority_system EXCEPT
                      !.kick_flash_active = IF expired THEN FALSE ELSE @,
                      !.priority_fixtures = st.priority_fixtures,
                      !.sequence_pause = st.sequence_pause]
            /\ fixtures_decay' = st.decay
            /\ dmx_buffer' = st.buf
            /\ IF st.updated /\ ~st.raised
               THEN \E sent \in {Flush(st.buf, net_ok)} :
                        wire' = sent.wire /\ send_result' = sent.ok
               ELSE UNCHANGED <<wire, send_result>>
    /\ UNCHANGED <<socket_open, tx_call, rx_datagram, dmx_receive_buffer, detVars, audVars, paintVars, flashVars, refreshVars, apiVars, lockVars, threadVars,
                   running, active_sequences, loop_elapsed, seq_pc, seq_info,
                   main_pc, kick_result, target_channels>>

SchedBands == {"Bass", "High-Mid"}
StartIntensities == {40}

InitSched == CodecIdle /\ DmxInit /\ SchedIdle /\ DetIdle /\ AudIdle /\ PaintIdle /\ FlashIdle /\ RefreshIdle /\ ApiIdle /\ ConcIdle

NextSched ==
    \/ Tick
    \/ \E band \in SchedBands, i \in StartIntensities : StartSequenceForBand(band, i)
    \/ \E band \in SchedBands, ok \in BOOLEAN : StopSequence(band, ok)
    \/ SeqLoopBegin
    \/ SeqFilter
    \/ SeqApply
    \/ SeqAdvance
    \/ \E ok \in BOOLEAN : SendKickFlash(ok)
    \/ KickReturn
    \/ \E ok \in BOOLEAN : UpdateEffects(ok)

SpecSched == InitSched /\ [][NextSched]_vars

\* ------------------------------------------------------------------------
\* Claims about the scheduler
\* ------------------------------------------------------------------------
\* the priority flash fired by send_kick_flash still covers the fixture
UnderPriorityFlash(name) ==
    /\ flash_priority_system.kick_flash_active
    /\ flash_priority_system.kick_flash_end_time >= 0
    /\ name \in flash_priority_system.priority_fixtures

\* C5 (as claimed): no sequence step write reaches the cells of a fixture
\* that is under an active priority flash, whatever the interleaving of the
\* sequence thread with send_kick_flash, update_effects and the expiry.
C5_NoSequenceWriteUnderFlash ==
    [][(seq_pc = "apply" /\ seq_pc' = "advance")
          => \A i \in DOMAIN seq_info.available :
                ~UnderPriorityFlash(seq_info.available[i])]_vars

\* C6 (as claimed): once stop_sequence(b) has returned, and until the band is
\* started again, every fixture of band b that is not under a flash has its
\* four colour cells at 0.
C6_DarkAfterStop ==
    \A band \in SchedBands :
        band \notin DOMAIN active_sequences =>
            \A i \in DOMAIN BandFixtures(band) :
                ~UnderPriorityFlash(BandFixtures(band)[i])
                    => FixtureCells(dmx_buffer, BandFixtures(band)[i]) = Black

\* C8 (as claimed): the update_effects that finds the flash past its duration
\* paints target_channels on each flashed fixture, erases its record and
\* takes it out of the priority set.
C8_ExpiryPaintsTarget ==
    [][(flash_priority_system.kick_flash_active /\ ~flash_priority_system'.kick_flash_active)
          => \A name \in flash_priority_system.priority_fixtures :
                /\ name \notin flash_priority_system'.priority_fixtures
                /\ ~fixtures_decay'[name].present
                /\ name \in DOMAIN target_channels
                      => FixtureCells(dmx_buffer', name) = target_channels[name]]_vars

\* C9 (as claimed): send_kick_flash, with flashes enabled and the flash scene
\* present, succeeds; every kick-responsive fixture then shows
\* min(255, scene x intensity) and has one priority flash record with
\* progress 0 and duration scene.decay.
C9_FlashInstalled ==
    [][(main_pc = "idle" /\ main_pc' = "kicked"
        /\ KickFlashConfig.enabled /\ NextFlashScene \in DOMAIN ScenesConfig)
          => /\ kick_result'
             /\ \A i \in DOMAIN KickFixtures :
                   /\ FixtureCells(dmx_buffer', KickFixtures[i])
                         = FlashChannels(ScenesConfig[NextFlashScene])
                   /\ fixtures_decay'[KickFixtures[i]].present
                   /\ fixtures_decay'[KickFixtures[i]].priority_flash
                   /\ fixtures_decay'[KickFixtures[i]].ticks = 0
                   /\ fixtures_decay'[KickFixtures[i]].duration
                         = SceneDecay(ScenesConfig[NextFlashScene])]_vars

\* the colour of the step the sequence is at, the index past the last step
\* standing for step 0 of the next cycle
StepColour(seq_rec) ==
    LET steps == SequencesConfig[seq_rec.sequence].steps
        current_step == steps[(seq_rec.step_index % Len(steps)) + 1]
    IN  ScaleChannels(ScenesConfig[current_step.scene].channels,
                      seq_rec.intensity, current_step.intensity_multiplier)

\* C10 (as claimed): the target_channels send_kick_flash computes for a
\* fixture are the colour of the current step of the band's active sequence,
\* at every point of the cycle including between the last step and the wrap,
\* and black only when the band has no active sequence.
C10_TargetIsSequenceColour ==
    [][(main_pc = "idle" /\ main_pc' = "kicked")
          => \A name \in DOMAIN target_channels' :
                target_channels'[name] =
                    IF FixtureByName(name).band \in DOMAIN active_sequences
                    THEN StepColour(active_sequences[FixtureByName(name).band])
                    ELSE Black]_vars

\* ------------------------------------------------------------------------
\* KickDetector (src/audio/kick_detector.py)
\* ------------------------------------------------------------------------
\* env in units of 0.0001, scores and thresholds in units of 0.001
Threshold == 150
MinEnergy == 50
QuickThreshold == 100
HistoryLen == 10

MaxBlocks == 3          \* process_block calls in one behaviour

SumSeq(s) == LET RECURSIVE Sum(_) Sum(n) == IF n = 0 THEN 0 ELSE s[n] + Sum(n - 1)
             IN Sum(Len(s))
LastN(s, n) == SubSeq(s, Max(1, Len(s) - n + 1), Len(s))

\* _scipy_kick_detection on a block of at least 256 samples: flux_history
\* and env_history hold at most 10 values, so the branch that wants 20 is
\* never taken and the score is min(max(0, env / recent_mean - 1.2), 1.5)
ScipyScore(env, history) ==
    IF Len(history) >= HistoryLen /\ SumSeq(LastN(history, HistoryLen)) > 0
    THEN Min(1500, Max(0, ((env * HistoryLen * 1000)
                            \div SumSeq(LastN(history, HistoryLen))) - 1200))
    ELSE 0

\* onset_strength when librosa reports a recent onset
OnsetStrength(env, history) ==
    IF Len(history) >= 5
    THEN LET before == SumSeq(SubSeq(history, Len(history) - 4, Len(history) - 1)) IN
         IF before = 0 THEN (IF env > 0 THEN 1000 ELSE 0)
         ELSE Min(1000, Max(0, ((env * 4 * 1000) \div before) - 1000))
    ELSE 300

Combined(env, history, onset_found) ==
    IF librosa_available
    THEN (6 * (IF onset_found THEN OnsetStrength(env, history) ELSE 0)
          + 4 * ScipyScore(env, history)) \div 10
    ELSE ScipyScore(env, history)

\* combined > adaptive_threshold, with adaptive_threshold =
\* max(quick_detection_threshold, recent_avg * 1.5) once 10 values are known
AboveAdaptive(combined, history) ==
    IF Len(history) >= HistoryLen
    THEN combined * 200 > Max(QuickThreshold * 200, SumSeq(LastN(history, HistoryLen)) * 3)
    ELSE combined > QuickThreshold

QuickDetection(env, combined, history, since_kick) ==
    /\ env * 2 > MinEnergy
    /\ AboveAdaptive(combined, history)
    /\ since_kick * DetUnitMs * 10 > RefractoryMs * 7

NormalDetection(env, combined, since_kick) ==
    /\ env > MinEnergy
    /\ since_kick * DetUnitMs > RefractoryMs
    /\ combined > Threshold

\* the reported kicks that are younger than refractory, oldest first
Aged(kicks, dt) ==
    SelectSeq([i \in DOMAIN kicks |-> kicks[i] + dt],
              LAMBDA age : age * DetUnitMs < RefractoryMs)

\* process_block called dt units after the previous call, on a block of
\* RMS energy env; onset_found is what librosa's onset detection says. It
\* is asked only once sample_buffer holds a second of audio, which takes
\* more blocks than env_history holds values.
DetectorStep(dt, env, onset_found) ==
    /\ blocks < MaxBlocks
    /\ onset_found => Len(env_history) >= HistoryLen
    /\ blocks' = blocks + 1
    /\ IF (last_process_time + dt) * DetUnitMs < RateLimitMs
       THEN /\ det_result' = NoResult
            /\ last_process_time' = Min(last_process_time + dt, ProcessCap)
            /\ last_kick_time' = Min(last_kick_time + dt, KickCap)
            /\ UNCHANGED env_history
       ELSE \E history \in {LastN(Append(env_history, env), HistoryLen)} :
            \E combined \in {Combined(env, history, onset_found)} :
            \E since_kick \in {Min(last_kick_time + dt, KickCap)} :
            \E quick \in {QuickDetection(env, combined, history, since_kick)} :
            \E normal \in {~quick /\ NormalDetection(env, combined, since_kick)} :
                /\ env_history' = history
                /\ last_process_time' = 0
                /\ last_kick_time' = IF quick \/ normal THEN 0 ELSE since_kick
                /\ det_result' = [kick |-> quick \/ normal, quick |-> quick]
    /\ recent_kicks' = IF det_result'.kick THEN Append(Aged(recent_kicks, dt), 0)
                       ELSE Aged(recent_kicks, dt)
    /\ UNCHANGED <<librosa_available, det_params>>

\* process_block called on a detector that drives nothing
ProcessBlock(dt, env, onset_found) ==
    /\ DetectorStep(dt, env, onset_found)
    /\ UNCHANGED <<codecVars, dmx_buffer, schedVars, audVars, paintVars, flashVars, refreshVars, apiVars, lockVars, threadVars>>

\* the scenes _trigger_threshold_event draws from with random.choice
PeakScenes == {"flash-white", "flash-red", "flash-blue"}

\* the kick part of AudioProcessor._analyze_band for Bass: process_block,
\* and on a kick _trigger_threshold_event('Bass', 'peak'), which applies the
\* scene it drew to the kick-responsive fixtures through apply_scene
AnalyzeBassKick(dt, env, onset_found, scene, net_ok) ==
    /\ DetectorStep(dt, env, onset_found)
    /\ IF det_result'.kick /\ KickFixtures # << >>
       THEN \E buf \in {ApplyScene(dmx_buffer, scene, KickFixtures, 100, 100)} :
            \E sent \in {Flush(buf, net_ok)} :
                /\ dmx_buffer' = buf
                /\ wire' = sent.wire
                /\ send_result' = sent.ok
       ELSE UNCHANGED <<dmx_buffer, wire, send_result>>
    /\ UNCHANGED <<socket_open, tx_call, rx_datagram, dmx_receive_buffer, schedVars,
                   audVars, paintVars, flashVars, refreshVars, apiVars, lockVars, threadVars>>

BlockGaps == {2, 10, 16, 22, 31}
EnvInputs == {0, 30, 60, 2000}

InitKick ==
    /\ CodecIdle /\ DmxInit /\ SchedIdle /\ AudIdle /\ PaintIdle /\ FlashIdle /\ RefreshIdle /\ ApiIdle /\ ConcIdle
    /\ det_params = DefaultParams
    /\ librosa_available \in BOOLEAN
    /\ env_history \in {<< >>, [i \in 1..HistoryLen |-> 60]}
    /\ last_kick_time = KickCap
    /\ last_process_time = ProcessCap
    /\ recent_kicks = << >>
    /\ det_result = NoResult
    /\ blocks = 0

NextKick ==
    \E dt \in BlockGaps, env \in EnvInputs, onset_found \in BOOLEAN :
        ProcessBlock(dt, env, onset_found)

SpecKick == InitKick /\ [][NextKick]_vars

\* the detector on the audio path, with the Art-Net manager attached
InitPeak == InitKick

NextPeak ==
    \E dt \in BlockGaps, env \in EnvInputs, onset_found \in BOOLEAN,
       scene \in PeakScenes, net_ok \in BOOLEAN :
        AnalyzeBassKick(dt, env, onset_found, scene, net_ok)

SpecPeak == InitPeak /\ [][NextPeak]_vars

\* C7 (as claimed): any two reported kicks of one detector are at least
\* refractory (150 ms) apart, whichever path, quick or normal, reported them.
C7_KicksRefractoryApart ==
    \A i, j \in DOMAIN recent_kicks :
        i < j => (recent_kicks[i] - recent_kicks[j]) * DetUnitMs >= RefractoryMs


\* ------------------------------------------------------------------------
\* The sequence thread under start, intensity updates and stop
\* ------------------------------------------------------------------------
SeqBands == {"Bass", "Low-Mid"}
StartInputs == {30, 60}
SeqIntensities == {10, 20, 60}

InitSeq == CodecIdle /\ DmxInit /\ SchedIdle /\ DetIdle /\ AudIdle /\ PaintIdle /\ FlashIdle /\ RefreshIdle /\ ApiIdle /\ ConcIdle

NextSeq ==
    \/ Tick
    \/ \E band \in SeqBands, i \in StartInputs :
          DOMAIN active_sequences \subseteq {band} /\ StartSequenceForBand(band, i)
    \/ \E band \in SeqBands, x \in SeqIntensities : UpdateSequenceIntensity(band, x)
    \/ SeqLoopBegin
    \/ SeqFilter
    \/ SeqApply
    \/ SeqAdvance

SpecSeq == InitSeq /\ [][NextSeq]_vars

\* the sequence thread examines the active bands: the only step that puts
\* loop_elapsed back to 0
LoopExamines == loop_elapsed > 0 /\ loop_elapsed' = 0

\* C11 (as claimed): when the step's duration has elapsed the index advances
\* by one; a finished looping sequence goes on with step 0; a finished
\* sequence that does not loop leaves the active sequences; the index that
\* selects a step is in 0..n-1.
C11_StepAdvance ==
    [][/\ (seq_pc' # "loop") =>
             seq_info'.step \in 0..(Len(SequencesConfig[seq_info'.sequence].steps) - 1)
       /\ (seq_pc = "advance" /\ seq_pc' = "loop" /\ ~seq_info.stale) =>
             active_sequences'[seq_info.band].step_index =
                 active_sequences[seq_info.band].step_index + 1
       /\ \A band \in DOMAIN active_sequences :
             LET rec == active_sequences[band]
                 seq == SequencesConfig[rec.sequence]
             IN  (LoopExamines /\ rec.step_index >= Len(seq.steps)) =>
                     IF seq.loop
                     THEN active_sequences'[band].step_index = 0
                     ELSE band \notin DOMAIN active_sequences']_vars

\* C12 (as claimed): start_sequence for an existing sequence stores step
\* index 0, entry time now, and the intensity itself when it is below half
\* the sequence's configured base_intensity, else the larger of the two.
C12_StartStoresClamped ==
    [][\A band \in SeqBands, i \in StartInputs :
          (/\ band_to_sequence[band] \in DOMAIN SequencesConfig
           /\ BandFixtures(band) # << >>
           /\ StartSequenceForBand(band, i))
          => LET base == SequencesConfig[band_to_sequence[band]].base_intensity
                 rec == active_sequences'[band]
             IN  /\ rec.step_index = 0
                 /\ rec.step_elapsed = 0
                 /\ rec.intensity = IF 2 * i < base THEN i
                                     ELSE IF i >= base THEN i ELSE base]_vars

\* C13: update_intensity(band, x) on an active band stores x when x is below
\* half the band's base intensity and max(x, base) otherwise, writes no cell
\* of the universe and leaves the step index and the step entry time; on a
\* band without a sequence it changes nothing.
C13_UpdateIntensityOnly ==
    [][\A band \in SeqBands, x \in SeqIntensities :
          UpdateSequenceIntensity(band, x)
          => /\ dmx_buffer' = dmx_buffer
             /\ wire' = wire
             /\ IF band \in DOMAIN active_sequences
                THEN LET rec == active_sequences[band] IN
                     active_sequences' =
                        [active_sequences EXCEPT ![band] =
                            [sequence |-> rec.sequence, fixtures |-> rec.fixtures,
                             step_index |-> rec.step_index,
                             step_elapsed |-> rec.step_elapsed,
                             intensity |-> IF 2 * x < rec.base_intensity THEN x
                                           ELSE IF x >= rec.base_intensity THEN x
                                           ELSE rec.base_intensity,
                             base_intensity |-> rec.base_intensity]]
                ELSE active_sequences' = active_sequences]_vars

\* an update has lowered a running sequence into the fade regime, and
\* another has raised one above its base
C13_Witness ==
    \E band \in DOMAIN active_sequences :
        /\ active_sequences[band].step_index > 0
        /\ 2 * active_sequences[band].intensity < active_sequences[band].base_intensity

\* round(n / d), halves upwards
RoundDiv(n, d) == (2 * n + d) \div (2 * d)

\* the value the intensity pipeline of the specification paints: v, i and m
\* as scene value, intensity in percent and multiplier in percent
EffectiveValue(v, i, m) ==
    IF i < 20 THEN Clamp255(RoundDiv(v * i * m, 10000))
    ELSE Clamp255(RoundDiv(v * (2500 + 75 * i) * m, 1000000))

\* C14 (as claimed): a step paints clamp(round(v x effective), 0, 255) with
\* effective = i x m below i = 0.2 and (0.25 + 0.75 i) x m from there on.
C14_StepPaintsEffective ==
    [][(seq_pc = "apply" /\ seq_pc' = "advance")
          => \A k \in DOMAIN seq_info.available :
                FixtureCells(dmx_buffer', seq_info.available[k]) =
                    [c \in ColorSet |->
                        EffectiveValue(ScenesConfig[SeqStep.scene].channels[c],
                                       seq_info.intensity,
                                       SeqStep.intensity_multiplier)]]_vars

\* ------------------------------------------------------------------------
\* The intensity pipeline as a function of scene value, intensity, multiplier
\* ------------------------------------------------------------------------
SceneValues == {0, 1, 100, 128, 254, 255}
PaintIntensities == {0, 10, 19, 20, 30, 50, 100}
StepMultipliers == {0, 60, 100, 150}

\* one channel of a step: _apply_sequence_step hands intensity x multiplier
\* to apply_scene_to_fixtures, which scales and clamps the scene value
PaintChannel(v, i, m) ==
    /\ paint_args' = [v |-> v, i |-> i, m |-> m]
    /\ paint_value' = ScaleChannels(Chan(v, v, v, v), i, m)["red"]
    /\ UNCHANGED <<codecVars, dmx_buffer, schedVars, detVars, audVars, flashVars, refreshVars, apiVars, lockVars, threadVars>>

InitPaint == CodecIdle /\ DmxInit /\ SchedIdle /\ DetIdle /\ AudIdle /\ PaintIdle /\ FlashIdle /\ RefreshIdle /\ ApiIdle /\ ConcIdle

NextPaint ==
    \E v \in SceneValues, i \in PaintIntensities, m \in StepMultipliers :
        PaintChannel(v, i, m)

SpecPaint == InitPaint /\ [][NextPaint]_vars

\* C15: with the intensity at 0.2 or more, a paint that raises one of scene
\* value, intensity and multiplier and keeps the other two writes a value
\* that is at least the one written before.
C15_PaintMonotone ==
    [][(/\ paint_args.i >= 20 /\ paint_args'.i >= 20
        /\ paint_args.v <= paint_args'.v
        /\ paint_args.i <= paint_args'.i
        /\ paint_args.m <= paint_args'.m
        /\ Cardinality({f \in {"v", "i", "m"} : paint_args[f] # paint_args'[f]}) = 1)
          => paint_value' >= paint_value]_vars

\* a paint in the normal regime that is neither dark nor saturated
C15_Witness ==
    /\ paint_args.i >= 20
    /\ paint_args.m > 100
    /\ paint_value > 0 /\ paint_value < 255

\* ------------------------------------------------------------------------
\* AudioProcessor: automatic thresholds, fade-to-black, sustained levels
\* ------------------------------------------------------------------------
MaxChange == 30
ThresholdFloor == 50
ThresholdCeiling == 700
AutoMinHistory == 100
AutoHistoryLen == 300
SilenceThreshold == 50
FadeStartDelay == 3
FadeDuration == 5
LevelHistoryLen == 40
MinDuration == 20
MaxChunks == 4          \* audio chunks in one behaviour

\* the k-th smallest value of a history, k from 0
SortedAt(h, k) ==
    CHOOSE x \in {h[j] : j \in DOMAIN h} :
        /\ Cardinality({j \in DOMAIN h : h[j] < x}) <= k
        /\ k < Cardinality({j \in DOMAIN h : h[j] <= x})

\* np.percentile(h, q), linear interpolation, to the thousandth below
Percentile(h, q) ==
    LET pos == (Len(h) - 1) * q
        lo == pos \div 100
        a == SortedAt(h, lo)
        b == SortedAt(h, Min(lo + 1, Len(h) - 1))
    IN  a + ((b - a) * (pos % 100)) \div 100

\* median + 15% of the inter-quartile range, moved at most max_change from
\* the current value, then held to the absolute limits
NewThreshold(current, h) ==
    LET proposal == Percentile(h, 50) + (15 * (Percentile(h, 75) - Percentile(h, 25))) \div 100
        limited == IF proposal - current > MaxChange THEN current + MaxChange
                   ELSE IF current - proposal > MaxChange THEN current - MaxChange
                   ELSE proposal
    IN  Max(ThresholdFloor, Min(ThresholdCeiling, limited))

\* the update that does not look at the auto flag
AutoUpdatedAnyBand(th, levels) ==
    [b \in AudioBands |->
        LET h == LastN(Append(th[b].history, levels[b]), AutoHistoryLen) IN
        [value |-> IF Len(h) >= AutoMinHistory THEN NewThreshold(th[b].value, h)
                   ELSE th[b].value,
         auto |-> th[b].auto, history |-> h]]

\* _update_auto_thresholds
AutoUpdated(th, levels) ==
    [b \in AudioBands |->
        IF ~th[b].auto THEN th[b]
        ELSE LET h == LastN(Append(th[b].history, levels[b]), AutoHistoryLen) IN
             [value |-> IF Len(h) >= AutoMinHistory THEN NewThreshold(th[b].value, h)
                        ELSE th[b].value,
              auto |-> TRUE, history |-> h]]

Event(band, type, intensity) == [band |-> band, type |-> type, intensity |-> intensity]

\* fade_progress in percent without the min(1.0, ...)
FadeProgressUncapped(elapsed) == (elapsed * 100) \div FadeDuration

\* fade_progress in percent
FadeProgress(elapsed) == Min(100, (elapsed * 100) \div FadeDuration)

\* _analyze_fade_to_black without the else branch of lines 336-341: a chunk
\* that is not quiet leaves the silence and the fade as they are
FadeStepNoCancel(band, f, level, dt) ==
    LET quiet == level < SilenceThreshold
        silence == IF quiet THEN Min(f.silence_duration + dt, FadeStartDelay + 1)
                   ELSE f.silence_duration
        starts == quiet /\ silence >= FadeStartDelay /\ ~f.in_fade
        fading == f.in_fade \/ starts
        elapsed == IF starts THEN 0 ELSE f.fade_elapsed + dt
        done == fading /\ FadeProgress(elapsed) >= 100
    IN  [state |-> [silence_duration |-> silence,
                    in_fade |-> fading /\ ~done,
                    fade_elapsed |-> IF fading /\ ~done THEN elapsed ELSE 0],
         events |-> IF ~fading THEN << >>
                    ELSE <<Event(band, "fade_update", 100 - FadeProgress(elapsed))>>
                         \o (IF done THEN <<Event(band, "fade_complete", 0)>> ELSE << >>)]

\* _analyze_fade_to_black for one band: the record and the events. The
\* silence is counted up to the first value past fade_start_delay;
\* fade_elapsed is current_time - fade_start_time while the fade runs.
FadeStep(band, f, level, dt) ==
    LET quiet == level < SilenceThreshold
        silence == IF quiet THEN Min(f.silence_duration + dt, FadeStartDelay + 1) ELSE 0
        starts == quiet /\ silence >= FadeStartDelay /\ ~f.in_fade
        fading == quiet /\ (f.in_fade \/ starts)
        elapsed == IF starts THEN 0 ELSE f.fade_elapsed + dt
        done == fading /\ FadeProgress(elapsed) >= 100
    IN  [state |-> [silence_duration |-> silence,
                    in_fade |-> fading /\ ~done,
                    fade_elapsed |-> IF fading /\ ~done THEN elapsed ELSE 0],
         events |-> IF ~fading THEN << >>
                    ELSE <<Event(band, "fade_update", 100 - FadeProgress(elapsed))>>
                         \o (IF done THEN <<Event(band, "fade_complete", 0)>> ELSE << >>)]

\* raw_intensity ** 0.7 in percent, read off at the ten below
Pow07(p) == <<0, 20, 32, 43, 53, 62, 70, 78, 86, 93, 100>>[(Min(p, 100) \div 10) + 1]

\* the sustained record left as it is when a fade interrupts
InterruptedKept(sus) == sus

\* the sustained record after a fade has interrupted it
Interrupted(sus) == [sus EXCEPT !.sustained = FALSE, !.intensity = 0]

\* _analyze_sustained_level for one band, after the fade analysis of the
\* same chunk (fade is the record that analysis left)
SustainedStep(band, sus, fade, level, threshold) ==
    IF fade.in_fade \/ fade.silence_duration > FadeStartDelay
    THEN IF sus.sustained
         THEN [state |-> Interrupted(sus), events |-> <<Event(band, "sustained_end", 0)>>]
         ELSE [state |-> sus, events |-> << >>]
    ELSE LET h == LastN(Append(sus.level_history, level), LevelHistoryLen)
             recent == LastN(h, MinDuration)
             total == SumSeq(recent)
             squares == SumSeq([k \in DOMAIN recent |-> recent[k] * recent[k]])
             is_above == total * 10 >= threshold * 6 * MinDuration
             is_stable == MinDuration * squares - total * total
                              <= 200000 * MinDuration * MinDuration
             is_sustained == is_above /\ is_stable
             raw == (100 * (total * 10 - threshold * 6 * MinDuration))
                        \div (10000 * MinDuration - threshold * 6 * MinDuration)
             intensity == IF is_sustained THEN Min(100, Max(30, Pow07(raw))) ELSE 0
         IN  IF Len(h) < MinDuration
             THEN [state |-> [sus EXCEPT !.level_history = h], events |-> << >>]
             ELSE [state |-> [sustained |-> is_sustained, intensity |-> intensity,
                              level_history |-> h],
                   events |->
                      IF is_sustained /\ ~sus.sustained
                      THEN <<Event(band, "sustained_start", intensity)>>
                      ELSE IF ~is_sustained /\ sus.sustained
                      THEN <<Event(band, "sustained_end", 0)>>
                      ELSE IF is_sustained
                      THEN <<Event(band, "sustained_update", intensity)>>
                      ELSE << >>]

\* the events that stop the sequence of their band, when only the end of a
\* fade does
StopEventsFadeOnly == {"fade_complete"}

\* the events whose handler stops the sequence of their band
StopEvents == {"fade_complete", "sustained_end"}

\* the scheduler's side of one event: _trigger_fade_event,
\* _trigger_sustained_event with on_sustained_started / on_sustained_ended
\* and the ArtNetManager methods they call; st holds the sequences, the
\* universe and what the flush of a stop sent
Deliver(st, ev) ==
    LET b == ev.band
        active == b \in DOMAIN st.seqs
    IN  IF ev.type \in StopEvents
        THEN IF ~active THEN st
             ELSE LET buf == ApplyToFixtures(st.buf, st.seqs[b].fixtures, Black, 1)
                      sent == Flush(buf, TRUE)
                  IN  [st EXCEPT !.seqs = DelEntry(st.seqs, b), !.buf = buf,
                                 !.wire = sent.wire, !.ok = sent.ok]
        ELSE IF ev.type = "sustained_start"
        THEN IF BandFixtures(b) = << >> \/ band_to_sequence[b] \notin DOMAIN SequencesConfig
             THEN st
             ELSE [st EXCEPT !.seqs =
                      SetEntry(st.seqs, b,
                               [sequence |-> band_to_sequence[b],
                                fixtures |-> BandFixtures(b),
                                step_index |-> 0, step_elapsed |-> 0,
                                intensity |-> ev.intensity,
                                base_intensity |-> ev.intensity]),
                            !.running = TRUE]
        ELSE IF ~active THEN st
        ELSE LET base == st.seqs[b].base_intensity
                 x == IF ev.type = "fade_update" THEN (base * ev.intensity) \div 100
                      ELSE ev.intensity
             IN  [st EXCEPT !.seqs[b].intensity = FinalIntensity(x, base)]

RECURSIVE DeliverAll(_, _, _)
DeliverAll(st, events, n) ==
    IF n > Len(events) THEN st
    ELSE DeliverAll(Deliver(st, events[n]), events, n + 1)

\* the analysis of the bands in the order of freq_ranges: the two records of
\* each band and the events in the order they are triggered
RECURSIVE AnalyzeBands(_, _, _, _)
AnalyzeBands(acc, th, levels, n) ==
    IF n > Len(BandOrder) THEN acc
    ELSE LET b == BandOrder[n]
             fade == FadeStep(b, fade_detection[b], levels[b], acc.dt)
             sus == SustainedStep(b, sustained_detection[b], fade.state, levels[b],
                                  th[b].value)
         IN  AnalyzeBands([acc EXCEPT !.fade[b] = fade.state, !.sus[b] = sus.state,
                                      !.events = @ \o fade.events \o sus.events],
                          th, levels, n + 1)

\* compute_levels on a chunk that arrives dt seconds after the one before
\* and whose normalised levels are `levels`, on a block in which the kick
\* detector reports no kick; the sequence thread is between two iterations
ComputeLevels(dt, levels) ==
    /\ chunks < MaxChunks
    /\ seq_pc = "loop"
    /\ chunks' = chunks + 1
    /\ aud_call' = [dt |-> dt, levels |-> levels]
    /\ \E th \in {AutoUpdated(auto_thresholds, levels)} :
       \E res \in {AnalyzeBands([dt |-> dt, fade |-> fade_detection,
                                  sus |-> sustained_detection, events |-> << >>],
                                 th, levels, 1)} :
       \E st \in {DeliverAll([seqs |-> active_sequences, buf |-> dmx_buffer,
                               wire |-> wire, ok |-> send_result,
                               running |-> running], res.events, 1)} :
          /\ auto_thresholds' = th
          /\ fade_detection' = res.fade
          /\ sustained_detection' = res.sus
          /\ aud_events' = res.events
          /\ active_sequences' = st.seqs
          /\ dmx_buffer' = st.buf
          /\ wire' = st.wire
          /\ send_result' = st.ok
          /\ running' = st.running
    /\ UNCHANGED <<socket_open, tx_call, rx_datagram, dmx_receive_buffer, detVars,
                   paintVars, flashVars, refreshVars, apiVars, lockVars, threadVars, loop_elapsed, seq_pc, seq_info, flash_priority_system,
                   fixtures_decay, main_pc, kick_result, target_channels>>

\* AudioProcessor.set_threshold
SetThreshold(band, value) ==
    /\ auto_thresholds' =
          IF band \in DOMAIN auto_thresholds
          THEN [auto_thresholds EXCEPT ![band].value = value, ![band].auto = FALSE]
          ELSE auto_thresholds
    /\ UNCHANGED <<codecVars, dmx_buffer, schedVars, detVars, paintVars, flashVars, refreshVars, apiVars, lockVars, threadVars, fade_detection,
                   sustained_detection, aud_events, chunks, aud_call>>

\* AudioProcessor.enable_auto_threshold
EnableAutoThreshold(band, enable) ==
    /\ auto_thresholds' =
          IF band \in DOMAIN auto_thresholds
          THEN [auto_thresholds EXCEPT ![band].auto = enable]
          ELSE auto_thresholds
    /\ UNCHANGED <<codecVars, dmx_buffer, schedVars, detVars, paintVars, flashVars, refreshVars, apiVars, lockVars, threadVars, fade_detection,
                   sustained_detection, aud_events, chunks, aud_call>>

Levels(bass, low_mid) == [b \in AudioBands |-> IF b = "Bass" THEN bass ELSE low_mid]

\* the threshold controls of the UI against the automatic update, from a
\* history one chunk short of the first update
ThresholdInputs == {50, 900}
ThreshLevels == {Levels(100, 100), Levels(900, 100)}
ThreshBands == {"Bass"}

InitThresh ==
    /\ CodecIdle /\ DmxInit /\ SchedIdle /\ DetIdle /\ PaintIdle /\ FlashIdle /\ RefreshIdle /\ ApiIdle /\ ConcIdle
    /\ AudioAfter(AutoMinHistory - 1, 100)

NextThresh ==
    \/ \E levels \in ThreshLevels : ComputeLevels(1, levels)
    \/ \E band \in ThreshBands, v \in ThresholdInputs : SetThreshold(band, v)
    \/ \E band \in ThreshBands, enable \in BOOLEAN : EnableAutoThreshold(band, enable)

SpecThresh == InitThresh /\ [][NextThresh]_vars

\* the detectors over a stream of chunks, from a history one chunk short of
\* the first sustained analysis
ChunkGaps == {1, 3}
AudioLevels == {Levels(40, 500), Levels(60, 40), Levels(500, 60)}
PriorLevels == {200, 500}

InitAudio ==
    /\ CodecIdle /\ DmxInit /\ SchedIdle /\ DetIdle /\ PaintIdle /\ FlashIdle /\ RefreshIdle /\ ApiIdle /\ ConcIdle
    /\ \E level \in PriorLevels : AudioAfter(MinDuration - 1, level)

NextAudio == \E dt \in ChunkGaps, levels \in AudioLevels : ComputeLevels(dt, levels)

SpecAudio == InitAudio /\ [][NextAudio]_vars

\* a step that processes an audio chunk, and the events of a kind it
\* triggered for a band
ChunkStep == chunks' = chunks + 1
EventCount(events, band, type) ==
    Cardinality({k \in DOMAIN events : events[k].band = band /\ events[k].type = type})

\* C16 (as claimed): whatever the interleaving of chunks, set_threshold and
\* enable_auto_threshold, an automatic update moves a band's threshold by at
\* most 0.03 and leaves it within [0.05, 0.7].
C16_AutoUpdateBounded ==
    [][\A b \in AudioBands :
          (/\ ChunkStep
           /\ auto_thresholds[b].auto
           /\ Len(auto_thresholds'[b].history) >= AutoMinHistory)
          => /\ auto_thresholds'[b].value - auto_thresholds[b].value <= MaxChange
             /\ auto_thresholds[b].value - auto_thresholds'[b].value <= MaxChange
             /\ auto_thresholds'[b].value >= ThresholdFloor
             /\ auto_thresholds'[b].value <= ThresholdCeiling]_vars

\* C17: set_threshold(band, v) leaves the band non-auto with threshold v and
\* the other bands' thresholds and auto flags as they were; a chunk does not
\* change the threshold of a band that is non-auto.
C17_ManualThresholdKept ==
    [][/\ \A band \in ThreshBands, v \in ThresholdInputs :
             SetThreshold(band, v)
             => /\ auto_thresholds'[band].value = v
                /\ ~auto_thresholds'[band].auto
                /\ \A other \in AudioBands \ {band} :
                      /\ auto_thresholds'[other].value = auto_thresholds[other].value
                      /\ auto_thresholds'[other].auto = auto_thresholds[other].auto
       /\ \A b \in AudioBands :
             (ChunkStep /\ ~auto_thresholds[b].auto)
             => auto_thresholds'[b].value = auto_thresholds[b].value]_vars

\* chunks have been processed since a manual threshold was set: the manual
\* band kept it while the automatic band moved
C17_Witness ==
    /\ chunks >= 2
    /\ \E b \in AudioBands :
          /\ ~auto_thresholds[b].auto
          /\ auto_thresholds[b].value \in ThresholdInputs
          /\ \E other \in AudioBands \ {b} :
                /\ auto_thresholds[other].auto
                /\ auto_thresholds[other].value # DefaultThreshold(other)

\* C18: on every chunk and for every band, sustained_start is triggered
\* exactly when the band goes from not sustained to sustained, sustained_end
\* exactly when it goes from sustained to not sustained (a fade interrupting
\* it included), and sustained_update only when it stays sustained.
C18_SustainedEventsWellFormed ==
    [][IF ChunkStep
       THEN \A b \in AudioBands :
              LET was == sustained_detection[b].sustained
                  is == sustained_detection'[b].sustained
              IN  /\ EventCount(aud_events', b, "sustained_start")
                        = IF ~was /\ is THEN 1 ELSE 0
                  /\ EventCount(aud_events', b, "sustained_end")
                        = IF was /\ ~is THEN 1 ELSE 0
                  /\ EventCount(aud_events', b, "sustained_update") > 0 => was /\ is
       ELSE /\ aud_events' = aud_events
            /\ \A b \in AudioBands :
                  sustained_detection'[b].sustained = sustained_detection[b].sustained]_vars

\* a fade has just interrupted a sustained band
C18_Witness ==
    \E b \in AudioBands :
        /\ fade_detection[b].in_fade
        /\ EventCount(aud_events, b, "sustained_end") = 1
        /\ ~sustained_detection[b].sustained

\* C19: a chunk that brings the silence to 3 s on a band that is not fading
\* begins a fade; every chunk of a fade triggers fade_update with 1 - p, p
\* the time since the fade began over 5 s; the intensities lie in [0,1] and
\* do not rise during a fade; fade_complete comes once, on the first chunk
\* with p >= 1, and ends the fade.
C19_FadeWellFormed ==
    [][ChunkStep =>
        \A b \in AudioBands :
          LET f == fade_detection[b]
              quiet == aud_call'.levels[b] < SilenceThreshold
              begins == quiet /\ ~f.in_fade
                          /\ f.silence_duration + aud_call'.dt >= FadeStartDelay
              goes_on == quiet /\ f.in_fade
              since == IF begins THEN 0 ELSE f.fade_elapsed + aud_call'.dt
              updates == {k \in DOMAIN aud_events' :
                            aud_events'[k].band = b /\ aud_events'[k].type = "fade_update"}
          IN  /\ Cardinality(updates) = IF begins \/ goes_on THEN 1 ELSE 0
              /\ \A k \in updates :
                    /\ aud_events'[k].intensity >= 0 /\ aud_events'[k].intensity <= 100
                    /\ IF since >= FadeDuration THEN aud_events'[k].intensity = 0
                       ELSE aud_events'[k].intensity * FadeDuration
                                = 100 * (FadeDuration - since)
                    /\ goes_on => aud_events'[k].intensity * FadeDuration
                                      <= 100 * (FadeDuration - f.fade_elapsed)
              /\ EventCount(aud_events', b, "fade_complete")
                    = IF (begins \/ goes_on) /\ since >= FadeDuration THEN 1 ELSE 0
              /\ fade_detection'[b].in_fade
                    = ((begins \/ goes_on) /\ since < FadeDuration)]_vars

\* a fade has run to its end
C19_Witness ==
    \E b \in AudioBands :
        /\ EventCount(aud_events, b, "fade_complete") = 1
        /\ EventCount(aud_events, b, "fade_update") = 1
        /\ ~fade_detection[b].in_fade

\* C20 (as claimed): a sequence that is active on a band when a chunk of a
\* fade comes stays active, with base_intensity x i as its updated intensity;
\* only fade_complete stops it, and then the band has no sequence and its
\* fixtures are dark.
C20_FadeKeepsSequence ==
    [][ChunkStep =>
        \A b \in AudioBands :
          /\ (/\ b \in DOMAIN active_sequences
              /\ EventCount(aud_events', b, "fade_update") = 1
              /\ EventCount(aud_events', b, "fade_complete") = 0)
              => /\ b \in DOMAIN active_sequences'
                 /\ \A k \in DOMAIN aud_events' :
                       (aud_events'[k].band = b /\ aud_events'[k].type = "fade_update")
                       => LET base == active_sequences[b].base_intensity
                              x == (base * aud_events'[k].intensity) \div 100
                          IN  active_sequences'[b].intensity =
                                 IF 2 * x < base THEN x ELSE IF x >= base THEN x ELSE base
          /\ EventCount(aud_events', b, "fade_complete") = 1
              => /\ b \notin DOMAIN active_sequences'
                 /\ \A i \in DOMAIN BandFixtures(b) :
                       FixtureCells(dmx_buffer', BandFixtures(b)[i]) = Black]_vars
\* C21: a chunk whose level is not below the silence threshold leaves the
\* band with silence_duration 0 and no fade, and triggers neither fade_update
\* nor fade_complete; silence accumulates by the gaps of the quiet chunks
\* only, and a fade begins only on a quiet chunk that finds at least 3 s of
\* it accumulated since the last chunk that was not quiet.
C21_LoudChunkCancelsFade ==
    [][ChunkStep =>
        \A b \in AudioBands :
          LET f == fade_detection[b]
              g == fade_detection'[b]
              quiet == aud_call'.levels[b] < SilenceThreshold
          IN  /\ ~quiet => /\ g.silence_duration = 0
                           /\ ~g.in_fade
                           /\ EventCount(aud_events', b, "fade_update") = 0
                           /\ EventCount(aud_events', b, "fade_complete") = 0
              /\ quiet => g.silence_duration
                             = Min(f.silence_duration + aud_call'.dt, FadeStartDelay + 1)
              /\ (~f.in_fade /\ EventCount(aud_events', b, "fade_update") > 0)
                    => quiet /\ f.silence_duration + aud_call'.dt >= FadeStartDelay]_vars

\* a chunk that is not quiet has come on a band whose chunk before was
\* quiet and had begun to accumulate silence
C21_Witness ==
    \E b \in AudioBands :
        LET h == sustained_detection[b].level_history
        IN  /\ chunks >= 2
            /\ aud_call.levels[b] >= SilenceThreshold
            /\ h[Len(h)] >= SilenceThreshold
            /\ h[Len(h) - 1] < SilenceThreshold
            /\ fade_detection[b].silence_duration = 0
            /\ ~fade_detection[b].in_fade
\* C22 (as claimed): on a block it analyses, process_block reports a kick
\* exactly when env > min_energy, combined > threshold and the last reported
\* kick is at least refractory old; a reported kick sets last_kick_time to
\* the time of the report and a block without a kick leaves it as it was.
C22_KickIffAllThree ==
    [][\A dt \in BlockGaps, env \in EnvInputs, onset_found \in BOOLEAN :
          (/\ ProcessBlock(dt, env, onset_found)
           /\ (last_process_time + dt) * DetUnitMs >= RateLimitMs)
          => LET history == LastN(Append(env_history, env), HistoryLen)
                 since_kick == Min(last_kick_time + dt, KickCap)
             IN  /\ det_result'.kick
                       <=> /\ env > MinEnergy
                           /\ Combined(env, history, onset_found) > Threshold
                           /\ since_kick * DetUnitMs >= RefractoryMs
                 /\ det_result'.kick => last_kick_time' = 0
                 /\ ~det_result'.kick => last_kick_time' = since_kick]_vars
\* ------------------------------------------------------------------------
\* KickFlashManager (src/artnet/kick_flash_manager.py)
\* ------------------------------------------------------------------------
FlashLogLen == 3        \* returned scenes kept in flash_log
FlashModes == {"single", "alternate", "random"}
ModeInputs == FlashModes \cup {"strobe"}
SceneLists == {<< >>, <<"flash-white">>, <<"flash-white", "flash-red">>,
               <<"flash-red", "flash-white", "flash-blue">>}
IndexInputs == 0..3

\* a call of get_next_flash_scene
FlashSceneCall ==
    /\ \E pick \in 1..Max(1, Len(kick_flash_config.scenes)) :
       \E next \in {GetNextFlashScene(kick_flash_config, pick)} :
          /\ kick_flash_config' = next.config
          /\ flash_log' = LastN(Append(flash_log, next.scene), FlashLogLen)
    /\ UNCHANGED <<codecVars, dmx_buffer, schedVars, detVars, audVars, paintVars, refreshVars, apiVars, lockVars, threadVars>>

\* KickFlashManager.set_scenes
SetScenes(scenes) ==
    /\ kick_flash_config' = [kick_flash_config EXCEPT !.scenes = scenes,
                                 !.current_index = 0, !.alternate_index = 0]
    /\ flash_log' = << >>
    /\ UNCHANGED <<codecVars, dmx_buffer, schedVars, detVars, audVars, paintVars, refreshVars, apiVars, lockVars, threadVars>>

\* KickFlashManager.set_mode
SetMode(mode) ==
    /\ kick_flash_config' = IF mode \in FlashModes
                            THEN [kick_flash_config EXCEPT !.mode = mode,
                                     !.current_index = 0, !.alternate_index = 0]
                            ELSE kick_flash_config
    /\ flash_log' = << >>
    /\ UNCHANGED <<codecVars, dmx_buffer, schedVars, detVars, audVars, paintVars, refreshVars, apiVars, lockVars, threadVars>>

\* KickFlashManager.set_enabled
SetEnabled(enabled) ==
    /\ kick_flash_config' = [kick_flash_config EXCEPT !.enabled = enabled]
    /\ flash_log' = << >>
    /\ UNCHANGED <<codecVars, dmx_buffer, schedVars, detVars, audVars, paintVars, refreshVars, apiVars, lockVars, threadVars>>

\* the manager as _load_config leaves it for a kick_flash_config.json
InitFlash ==
    /\ CodecIdle /\ DmxInit /\ SchedIdle /\ DetIdle /\ AudIdle /\ PaintIdle /\ RefreshIdle /\ ApiIdle /\ ConcIdle
    /\ \E enabled \in BOOLEAN, mode \in FlashModes, scenes \in SceneLists,
          index \in IndexInputs :
          kick_flash_config = [enabled |-> enabled, intensity |-> 80, mode |-> mode,
                               scenes |-> scenes, alternate_index |-> index,
                               current_index |-> index]
    /\ flash_log = << >>

NextFlash ==
    \/ FlashSceneCall
    \/ \E scenes \in SceneLists : SetScenes(scenes)
    \/ \E mode \in ModeInputs : SetMode(mode)
    \/ \E enabled \in BOOLEAN : SetEnabled(enabled)

SpecFlash == InitFlash /\ [][NextFlash]_vars

\* C24: get_next_flash_scene returns the first scene in mode single; in
\* mode alternate with two scenes or more it returns the scene after the one
\* it returned before, cyclically, and leaves alternate_index at the
\* position of the scene the next call returns, within 0..n-1, so that any n
\* calls in a row return every scene once; disabled or without scenes it
\* returns nothing and leaves the index; set_scenes and set_mode put the
\* index at 0.
C24_FlashSceneRotation ==
    [][   /\ FlashSceneCall
             => LET cfg == kick_flash_config
                    n == Len(cfg.scenes)
                    ret == flash_log'[Len(flash_log')]
                IN  /\ (~cfg.enabled \/ n = 0)
                         => ret = "" /\ kick_flash_config' = cfg
                    /\ (cfg.enabled /\ n > 0 /\ cfg.mode = "single")
                         => ret = cfg.scenes[1]
                    /\ (cfg.enabled /\ n >= 2 /\ cfg.mode = "alternate")
                         => /\ flash_log # << >>
                                  => \E j \in 1..n : /\ flash_log[Len(flash_log)] = cfg.scenes[j]
                                                     /\ ret = cfg.scenes[(j % n) + 1]
                            /\ kick_flash_config'.alternate_index \in 0..(n - 1)
                            /\ kick_flash_config'.current_index
                                  = kick_flash_config'.alternate_index
                            /\ GetNextFlashScene(kick_flash_config', 1).scene
                                  = cfg.scenes[kick_flash_config'.alternate_index + 1]
                            /\ \E j \in 1..n : /\ ret = cfg.scenes[j]
                                               /\ kick_flash_config'.alternate_index = j % n
          /\ \A scenes \in SceneLists :
                SetScenes(scenes) => /\ kick_flash_config'.alternate_index = 0
                                     /\ kick_flash_config'.current_index = 0
          /\ \A mode \in FlashModes :
                SetMode(mode) => /\ kick_flash_config'.alternate_index = 0
                                 /\ kick_flash_config'.current_index = 0
          /\ LET cfg == kick_flash_config'
                  n == Len(cfg.scenes)
                  log == flash_log'
              IN  (cfg.enabled /\ cfg.mode = "alternate" /\ n >= 2 /\ Len(log) >= n)
                  => {log[k] : k \in (Len(log) - n + 1)..Len(log)}
                        = {cfg.scenes[j] : j \in 1..n}]_vars

\* three scenes alternate and the rotation has wrapped to the first
C24_Witness ==
    /\ kick_flash_config.enabled
    /\ kick_flash_config.mode = "alternate"
    /\ Len(kick_flash_config.scenes) = 3
    /\ Len(flash_log) = 3
    /\ flash_log[3] = kick_flash_config.scenes[1]
    /\ flash_log[2] = kick_flash_config.scenes[3]
    /\ kick_flash_config.alternate_index = 1
WriteValues == {0, 255}

\* the refresh thread wakes from time.sleep(sleep_time), `overhead` ticks
\* late, and tests refresh_running
RefreshWake(overhead) ==
    /\ refresh_pc = "sleep"
    /\ clock' = (clock + SleepTicks + overhead) % TicksPerSecond
    /\ frame_gap' = Min(frame_gap + SleepTicks + overhead, GapCap)
    /\ refresh_pc' = IF refresh_running THEN "test" ELSE "done"
    /\ UNCHANGED <<codecVars, dmx_buffer, schedVars, detVars, audVars, paintVars, flashVars, apiVars, lockVars, threadVars,
                   refresh_running, last_sent_buffer, last_frame, stop_pc>>

\* last_sent_buffer marked at every send, whatever send_dmx returned
LastSentAlways(success, buf, last_sent) == buf

\* last_sent_buffer after the send of lines 58-60
LastSentAfter(success, buf, last_sent) == IF success THEN buf ELSE last_sent

\* lines 54 and 56: the universe changed, or the second has just begun
RefreshDue == dmx_buffer # last_sent_buffer \/ clock < SleepTicks

\* lines 54-60: the comparison, the send and the mark on last_sent_buffer;
\* net_ok: the network takes the frame
RefreshSend(net_ok) ==
    IF RefreshDue
    THEN \E sent \in {ClientSend(socket_open, ConfigUniverse, "ndarray",
                                 BufferAsData(dmx_buffer), net_ok)} :
            /\ wire' = sent.wire
            /\ send_result' = sent.ok
            /\ last_sent_buffer' = LastSentAfter(sent.ok, dmx_buffer, last_sent_buffer)
            /\ IF sent.ok
               THEN /\ frame_gap' = 0
                    /\ last_frame' = IF \A k \in DOMAIN dmx_buffer : dmx_buffer[k] = 0
                                     THEN "zero" ELSE "nonzero"
               ELSE UNCHANGED <<frame_gap, last_frame>>
    ELSE UNCHANGED <<wire, send_result, last_sent_buffer, frame_gap, last_frame>>

\* the body of _refresh_loop as one step, for the specifications in which
\* no other thread asks for buffer_lock
RefreshBody(net_ok) ==
    /\ refresh_pc = "test"
    /\ refresh_pc' = "sleep"
    /\ RefreshSend(net_ok)
    /\ UNCHANGED <<socket_open, tx_call, rx_datagram, dmx_receive_buffer, dmx_buffer,
                   schedVars, detVars, audVars, paintVars, flashVars, apiVars, lockVars,
                   threadVars, refresh_running, clock, stop_pc>>

\* the application writes a colour to the first fixture
WriteFixture(value) ==
    /\ stop_pc = "run"
    /\ dmx_buffer' = ApplyChannels(dmx_buffer, FixturesConfig[1], Chan(value, 0, 0, 0))
    /\ UNCHANGED <<codecVars, schedVars, detVars, audVars, paintVars, flashVars, apiVars, lockVars, threadVars, refreshVars>>

\* ArtNetManager.stop up to its clear_all_channels
StopClear ==
    /\ stop_pc = "run"
    /\ stop_pc' = "cleared"
    /\ running' = FALSE
    /\ dmx_buffer' = [i \in 0..(DmxSize - 1) |-> 0]
    /\ UNCHANGED <<codecVars, active_sequences, loop_elapsed, seq_pc, seq_info,
                   flash_priority_system, fixtures_decay, main_pc, kick_result,
                   target_channels, detVars, audVars, paintVars, flashVars, apiVars, lockVars, threadVars,
                   refresh_running, last_sent_buffer, refresh_pc, clock, frame_gap,
                   last_frame>>

\* DMXController.close: stop_refresh_thread clears the flag
StopRefreshThread ==
    /\ stop_pc = "cleared"
    /\ stop_pc' = "joining"
    /\ refresh_running' = FALSE
    /\ UNCHANGED <<codecVars, dmx_buffer, schedVars, detVars, audVars, paintVars, flashVars, apiVars, lockVars, threadVars,
                   last_sent_buffer, refresh_pc, clock, frame_gap, last_frame>>

\* the join returns once the refresh thread has ended; close then clears
\* the universe again, sleeps and closes the client
StopClose ==
    /\ stop_pc = "joining"
    /\ refresh_pc = "done"
    /\ stop_pc' = "closed"
    /\ dmx_buffer' = [i \in 0..(DmxSize - 1) |-> 0]
    /\ socket_open' = FALSE
    /\ UNCHANGED <<tx_call, wire, send_result, rx_datagram, dmx_receive_buffer, schedVars,
                   detVars, audVars, paintVars, flashVars, apiVars, lockVars, threadVars, refresh_running,
                   last_sent_buffer, refresh_pc, clock, frame_gap, last_frame>>

InitRefresh ==
    /\ CodecIdle /\ DmxInit /\ SchedIdle /\ DetIdle /\ AudIdle /\ PaintIdle /\ FlashIdle
    /\ ApiIdle /\ ConcIdle
    /\ \E phase \in 0..(TicksPerSecond - 1) : RefreshAt(phase)

NextRefresh ==
    \/ \E overhead \in 0..MaxOverhead : RefreshWake(overhead)
    \/ RefreshBody(TRUE)
    \/ \E value \in WriteValues : WriteFixture(value)
    \/ StopClear
    \/ StopRefreshThread
    \/ StopClose

SpecRefresh == InitRefresh /\ [][NextRefresh]_vars

\* C25 (as claimed): while the refresh loop runs and sends succeed, every
\* wake-up that finds the universe different from last_sent emits a frame,
\* and two consecutive frames are never further apart than 1 s plus one
\* turn of the loop, whatever the phase and the lateness of the wake-ups.
C25_KeepAliveWithinSecond ==
    [][/\ (refresh_pc = "test" /\ refresh_pc' = "sleep" /\ dmx_buffer # last_sent_buffer)
            => frame_gap' = 0 /\ last_sent_buffer' = dmx_buffer
       /\ (stop_pc' = "run")
            => frame_gap' <= TicksPerSecond + SleepTicks + MaxOverhead]_vars

\* C26 (as claimed): when ArtNetManager.stop has closed the socket, the
\* last frame that went on the wire is all zero, whatever the universe held
\* and wherever the refresh thread was when stop was called.
C26_ZeroFrameOnShutdown ==
    stop_pc = "closed" => last_frame \in {"none", "zero"}

\* ------------------------------------------------------------------------
\* Fixture descriptors: FixtureManager, Validator.validate_fixture_config,
\* DMXController.apply_channels_to_fixture and ArtNetManager.get_fixture_values
\* ------------------------------------------------------------------------
\* a channel map that fixtures.json may hold: red and green the other way round
SwappedOffsets == Chan(2, 1, 3, 4)

\* a descriptor of fixtures.json under either spelling of its start channel
Descriptor(key, start, offsets) ==
    IF key = "startChannel"
    THEN [name |-> "Par", startChannel |-> start, channels |-> offsets]
    ELSE [name |-> "Par", start_channel |-> start, channels |-> offsets]

\* FixtureManager._validate_and_normalize_fixtures for one fixture: both
\* spellings of the start channel are filled in, nothing is refused
NormalizeFixture(fixture) ==
    IF "startChannel" \in DOMAIN fixture /\ "start_channel" \notin DOMAIN fixture
    THEN [name |-> fixture.name, startChannel |-> fixture.startChannel,
          start_channel |-> fixture.startChannel, channels |-> fixture.channels]
    ELSE IF "start_channel" \in DOMAIN fixture /\ "startChannel" \notin DOMAIN fixture
    THEN [name |-> fixture.name, startChannel |-> fixture.start_channel,
          start_channel |-> fixture.start_channel, channels |-> fixture.channels]
    ELSE IF "start_channel" \notin DOMAIN fixture
    THEN [name |-> fixture.name, startChannel |-> 1, start_channel |-> 1,
          channels |-> fixture.channels]
    ELSE fixture

\* Validator.validate_fixture_config
ValidateFixture(fixture) ==
    /\ {"name", "startChannel", "channels"} \subseteq DOMAIN fixture
    /\ 1 <= fixture.startChannel /\ fixture.startChannel <= 512
    /\ \A color \in ColorSet :
          /\ color \in DOMAIN fixture.channels
          /\ 1 <= fixture.channels[color] /\ fixture.channels[color] <= 4

\* the values get_fixture_values reads for one fixture of get_all_fixtures
FixtureValues(buf, fixture) ==
    LET start_channel == fixture.start_channel - 1
        Offset(color) == CASE color = "red" -> 0 [] color = "green" -> 1
                           [] color = "blue" -> 2 [] color = "white" -> 3
    IN  [color \in ColorSet |->
            IF 0 <= start_channel + Offset(color) /\ start_channel + Offset(color) < 512
            THEN buf[start_channel + Offset(color)]
            ELSE 0]

Called(op, fixture, channels, ok, values) ==
    [op |-> op, fixture |-> fixture, channels |-> channels, ok |-> ok, values |-> values]

\* FixtureManager(fixtures_config) over a file that holds the descriptor
LoadFixture(raw) ==
    /\ api_call' = Called("load", NormalizeFixture(raw), Black, TRUE, Black)
    /\ UNCHANGED <<codecVars, dmx_buffer, schedVars, detVars, audVars, paintVars, flashVars,
                   refreshVars, lockVars, threadVars>>

ValidateFixtureConfig(raw) ==
    /\ api_call' = Called("validate", raw, Black, ValidateFixture(raw), Black)
    /\ UNCHANGED <<codecVars, dmx_buffer, schedVars, detVars, audVars, paintVars, flashVars,
                   refreshVars, lockVars, threadVars>>

\* apply_channels_to_fixture on a fixture of the fixture manager
ApplyToFixture(fixture, channels) ==
    /\ dmx_buffer' = ApplyChannels(dmx_buffer, fixture, channels)
    /\ api_call' = Called("apply", fixture, channels, TRUE, Black)
    /\ UNCHANGED <<codecVars, schedVars, detVars, audVars, paintVars, flashVars, refreshVars, lockVars, threadVars>>

GetFixtureValues(fixture) ==
    /\ api_call' = Called("read", fixture, Black, TRUE, FixtureValues(dmx_buffer, fixture))
    /\ UNCHANGED <<codecVars, dmx_buffer, schedVars, detVars, audVars, paintVars, flashVars,
                   refreshVars, lockVars, threadVars>>

ClearFixtures ==
    /\ dmx_buffer' = [i \in 0..(DmxSize - 1) |-> 0]
    /\ api_call' = Called("clear", NoFixture, Black, TRUE, Black)
    /\ UNCHANGED <<codecVars, schedVars, detVars, audVars, paintVars, flashVars, refreshVars, lockVars, threadVars>>

\* inputs of the fixture specification: descriptors at the start and at the
\* end of the universe, one colour of a fixture or all four
DescriptorInputs ==
    {Descriptor(key, start, offsets) :
        key \in {"startChannel", "start_channel"}, start \in {1, DmxSize - 1},
        offsets \in {StdOffsets, SwappedOffsets}}
LoadedFixtures == {NormalizeFixture(raw) : raw \in DescriptorInputs}
ColourDicts ==
    {[c \in {"red"} |-> 255], [c \in {"white"} |-> 300], Chan(255, 0 - 1, 255, 255)}

InitFixture ==
    /\ CodecIdle /\ DmxInit /\ SchedIdle /\ DetIdle /\ AudIdle /\ PaintIdle /\ FlashIdle
    /\ RefreshIdle /\ ApiIdle /\ ConcIdle

NextFixture ==
    \/ \E raw \in DescriptorInputs : LoadFixture(raw)
    \/ \E raw \in DescriptorInputs : ValidateFixtureConfig(raw)
    \/ \E f \in LoadedFixtures, c \in ColourDicts : ApplyToFixture(f, c)
    \/ \E f \in LoadedFixtures : GetFixtureValues(f)
    \/ ClearFixtures

SpecFixture == InitFixture /\ [][NextFixture]_vars

InRange(fixture, color) ==
    0 <= BufferIndex(fixture, color) /\ BufferIndex(fixture, color) < DmxSize

\* C27: apply_channels_to_fixture writes every colour of the call whose
\* buffer index lies in [0,511] with its clamped value and skips the colours
\* whose index lies outside: the universe keeps its 512 cells and no cell
\* but those of the colours in range changes.
C27_OutOfRangeSkipped ==
    [][api_call'.op = "apply"
       => LET f == api_call'.fixture
              c == api_call'.channels
          IN  /\ DOMAIN dmx_buffer' = DOMAIN dmx_buffer
              /\ \A color \in DOMAIN c :
                    InRange(f, color) => dmx_buffer'[BufferIndex(f, color)] = Clamp255(c[color])
              /\ \A k \in DOMAIN dmx_buffer :
                    (\A color \in DOMAIN c : ~(InRange(f, color) /\ BufferIndex(f, color) = k))
                    => dmx_buffer'[k] = dmx_buffer[k]]_vars

\* all four colours were applied to the fixture at start channel 511: red and
\* green are in cells 510 and 511, blue and white lie past the end
C27_Witness ==
    /\ api_call.op = "apply"
    /\ DOMAIN api_call.channels = ColorSet
    /\ InRange(api_call.fixture, "red") /\ ~InRange(api_call.fixture, "white")
    /\ dmx_buffer[BufferIndex(api_call.fixture, "red")] = 255

\* C29 (as claimed): every fixture descriptor that the fixture manager takes
\* at load, or that validate_fixture_config accepts, has its four derived
\* buffer indices startChannel + offset - 2 inside [0,511]; a descriptor with
\* an index outside is rejected.
C29_AcceptedInRange ==
    (api_call.op \in {"load", "validate"} /\ api_call.ok)
    => \A color \in ColorSet : InRange(NormalizeFixture(api_call.fixture), color)

\* C30 (as claimed): after apply_channels_to_fixture(f, {c: v}) with all its
\* addresses in range, cell startChannel + channels[c] - 2 of the universe
\* holds v clamped to [0,255] and get_fixture_values reports that value for
\* colour c of f, whatever the channel map of f.
C30_WriteThenReadBack ==
    [][(/\ api_call'.op = "apply"
        /\ \A color \in DOMAIN api_call'.channels : InRange(api_call'.fixture, color))
       => LET f == api_call'.fixture
              c == api_call'.channels
          IN  \A color \in DOMAIN c :
                 /\ dmx_buffer'[f.startChannel + f.channels[color] - 2] = Clamp255(c[color])
                 /\ FixtureValues(dmx_buffer', f)[color] = Clamp255(c[color])]_vars

\* ------------------------------------------------------------------------
\* Names that the configuration does not hold: SequenceManager.start_sequence,
\* ArtNetManager.apply_scene and ArtNetManager.send_kick_flash
\* ------------------------------------------------------------------------
\* start_sequence called with its result kept
StartSequenceCall(sequence_name, band, intensity) ==
    /\ StartSequence(sequence_name, band, BandFixtures(band), intensity)
    /\ api_call' = Called("start_sequence", NoFixture, Black,
                          sequence_name \in DOMAIN SequencesConfig, Black)

\* ArtNetManager.apply_scene on the kick fixtures: the scene at full
\* intensity, then flush_buffer whatever apply_scene_to_fixtures returned
ApplySceneCall(scene_name, net_ok) ==
    \E buf \in {ApplyScene(dmx_buffer, scene_name, KickFixtures, 100, 100)} :
    \E sent \in {Flush(buf, net_ok)} :
    /\ dmx_buffer' = buf
    /\ wire' = sent.wire
    /\ send_result' = sent.ok
    /\ api_call' = Called("apply_scene", NoFixture, Black,
                          scene_name \in DOMAIN ScenesConfig, Black)
    /\ UNCHANGED <<socket_open, tx_call, rx_datagram, dmx_receive_buffer, schedVars, detVars,
                   audVars, paintVars, flashVars, refreshVars, lockVars, threadVars>>

\* flash-blue is a scene the audio processor asks for and scenes.json lacks;
\* highmid-wave is the sequence of a band and sequences.json lacks it
SceneNames == {"flash-red", "flash-blue"}
SequenceNames == {"bass-pulse", "highmid-wave"}
FlashLists == {<<"flash-white">>, <<"flash-blue">>, <<"flash-blue", "flash-white">>}

\* the state after construction, kick_flash_config.json holding one of the lists
InitNames ==
    /\ CodecIdle /\ DmxInit /\ SchedIdle /\ DetIdle /\ AudIdle /\ PaintIdle /\ RefreshIdle
    /\ ApiIdle /\ ConcIdle
    /\ flash_log = << >>
    /\ \E scenes \in FlashLists, mode \in {"single", "alternate"} :
          kick_flash_config = [KickFlashConfig EXCEPT !.scenes = scenes, !.mode = mode]

NextNames ==
    \/ \E name \in SequenceNames, i \in StartIntensities : StartSequenceCall(name, "Bass", i)
    \/ \E scene \in SceneNames, ok \in BOOLEAN : ApplySceneCall(scene, ok)
    \/ \E ok \in BOOLEAN : SendKickFlash(ok)
    \/ KickReturn

SpecNames == InitNames /\ [][NextNames]_vars

\* C28 (as claimed): start_sequence with a sequence name, and apply_scene and
\* send_kick_flash with a scene name, that the configuration does not hold
\* return False and leave the active sequences, the decay records of the
\* flashes, the priority set, the rotation index of the flash scenes and
\* every cell of the universe as they were.
C28_UnknownNameNoOp ==
    [][LET Kept == UNCHANGED <<active_sequences, fixtures_decay, flash_priority_system,
                               kick_flash_config, dmx_buffer>>
       IN  /\ \A name \in SequenceNames, i \in StartIntensities :
                 (StartSequenceCall(name, "Bass", i) /\ name \notin DOMAIN SequencesConfig)
                 => (~api_call'.ok /\ Kept)
           /\ \A scene \in SceneNames, ok \in BOOLEAN :
                 (ApplySceneCall(scene, ok) /\ scene \notin DOMAIN ScenesConfig)
                 => (~api_call'.ok /\ Kept)
           /\ \A ok \in BOOLEAN :
                 (/\ SendKickFlash(ok)
                  /\ NextFlashScene # ""
                  /\ NextFlashScene \notin DOMAIN ScenesConfig)
                 => (~kick_result' /\ Kept)]_vars

\* ------------------------------------------------------------------------
\* The refresh thread on a network that may refuse a frame
\* ------------------------------------------------------------------------
InitRetry ==
    /\ CodecIdle /\ DmxInit /\ SchedIdle /\ DetIdle /\ AudIdle /\ PaintIdle /\ FlashIdle
    /\ ApiIdle /\ ConcIdle /\ RefreshIdle

\* the thread wakes on time
NextRetry ==
    \/ RefreshWake(0)
    \/ \E ok \in BOOLEAN : RefreshBody(ok)
    \/ \E value \in WriteValues : WriteFixture(value)

SpecRetry == InitRetry /\ [][NextRetry]_vars

\* C34: a turn of the refresh loop leaves the loop running; when the universe
\* differs from last_sent_buffer it hands the current universe to the
\* socket; a send that fails leaves last_sent_buffer as it was, so the next
\* turn sends again, and a send that succeeds leaves last_sent_buffer equal
\* to the frame sent.
C34_FailedSendRetried ==
    [][(refresh_pc = "test" /\ refresh_pc' # "test")
       => LET attempted == dmx_buffer # last_sent_buffer \/ clock < SleepTicks
              frame == ClientPacket(ConfigUniverse, "ndarray", BufferAsData(dmx_buffer))
          IN  /\ refresh_pc' = "sleep" /\ refresh_running' = refresh_running
              /\ dmx_buffer # last_sent_buffer => (wire' # << >> /\ wire'[1] = frame)
              /\ (attempted /\ ~send_result')
                    => (last_sent_buffer' = last_sent_buffer /\ wire' = <<frame>>)
              /\ (attempted /\ send_result')
                    => (last_sent_buffer' = dmx_buffer /\ wire' = <<frame, frame>>)]_vars

\* a frame with the first fixture lit was refused: the universe still
\* differs from last_sent_buffer while the thread sleeps
C34_Witness ==
    /\ refresh_pc = "sleep"
    /\ ~send_result /\ Len(wire) = 1
    /\ dmx_buffer # last_sent_buffer
    /\ dmx_buffer[0] = 255

\* ------------------------------------------------------------------------
\* KickDetector.adjust_sensitivity
\* ------------------------------------------------------------------------
\* sensitivity in percent: threshold = 0.5 + sensitivity * 0.5 and
\* min_energy = 0.008 + sensitivity * 0.012; refractory is not assigned
AdjustedParams(params, sensitivity) ==
    [params EXCEPT !.threshold = 500 + 5 * sensitivity,
                   !.min_energy = 800 + 12 * sensitivity]

AdjustSensitivity(sensitivity) ==
    /\ det_params' = AdjustedParams(det_params, sensitivity)
    /\ UNCHANGED <<codecVars, dmx_buffer, schedVars, audVars, paintVars, flashVars,
                   refreshVars, apiVars, lockVars, threadVars, librosa_available, env_history, last_kick_time,
                   last_process_time, recent_kicks, det_result, blocks>>

SensitivityInputs == 0..100

InitSens ==
    /\ CodecIdle /\ DmxInit /\ SchedIdle /\ DetIdle /\ AudIdle /\ PaintIdle /\ FlashIdle
    /\ RefreshIdle /\ ApiIdle /\ ConcIdle

NextSens == \E sensitivity \in SensitivityInputs : AdjustSensitivity(sensitivity)

SpecSens == InitSens /\ [][NextSens]_vars

\* C35 (as claimed): when the detector holds the parameters of a sensitivity
\* s1 and adjust_sensitivity is called with s2 > s1, the threshold and
\* min_energy it leaves are not higher than before and the refractory time
\* is not lower.
C35_SensitivityMonotone ==
    [][\A s1 \in SensitivityInputs :
          det_params = AdjustedParams(det_params, s1)
          => \A s2 \in SensitivityInputs :
                (s1 < s2 /\ AdjustSensitivity(s2))
                => /\ det_params'.threshold <= det_params.threshold
                   /\ det_params'.min_energy <= det_params.min_energy
                   /\ det_params'.refractory >= det_params.refractory]_vars

\* ------------------------------------------------------------------------
\* The fade and the sustained level of one band, chunk after chunk
\* ------------------------------------------------------------------------
HasEvent(events, band, type) ==
    \E i \in DOMAIN events : events[i].band = band /\ events[i].type = type

\* C36: after every chunk, a band whose fade is in progress, or whose
\* silence has passed fade_start_delay, is not sustained, and when it was
\* sustained before the chunk its sustained_end is among the events of the
\* chunk.
C36_FadeExcludesSustained ==
    [][chunks' # chunks
       => \A b \in AudioBands :
             (\/ fade_detection'[b].in_fade
              \/ fade_detection'[b].silence_duration > FadeStartDelay)
             => /\ ~sustained_detection'[b].sustained
                /\ sustained_detection[b].sustained
                      => HasEvent(aud_events', b, "sustained_end")]_vars

\* a fade has begun on a band that was sustained: the chunk raised the
\* fade_update and the sustained_end of the band
C36_Witness ==
    \E b \in AudioBands :
        /\ fade_detection[b].in_fade
        /\ ~sustained_detection[b].sustained
        /\ HasEvent(aud_events, b, "fade_update")
        /\ HasEvent(aud_events, b, "sustained_end")

\* C38 (as claimed): a band whose fade has completed (its silence has lasted
\* fade_start_delay and no fade is in progress) raises no fade_update and no
\* fade_complete on a further chunk below the silence threshold.
C38_OneFadePerSilence ==
    [][chunks' # chunks
       => \A b \in AudioBands :
             (/\ ~fade_detection[b].in_fade
              /\ fade_detection[b].silence_duration >= FadeStartDelay
              /\ aud_call'.levels[b] < SilenceThreshold)
             => /\ ~HasEvent(aud_events', b, "fade_update")
                /\ ~HasEvent(aud_events', b, "fade_complete")]_vars

\* C37: with the sequences started and stopped by the events of the
\* detectors only, after every chunk each band that has an active sequence
\* is sustained.
C37_ActiveOnlyWhileSustained ==
    \A b \in DOMAIN active_sequences : sustained_detection[b].sustained

\* Bass is sustained with its sequence running while the chunk ended the
\* sustained level of Low-Mid and stopped its sequence
C37_Witness ==
    /\ "Bass" \in DOMAIN active_sequences
    /\ HasEvent(aud_events, "Low-Mid", "sustained_end")
    /\ "Low-Mid" \notin DOMAIN active_sequences

\* ------------------------------------------------------------------------
\* The order of the flash writes and the sequence writes
\* ------------------------------------------------------------------------
\* C31 (as claimed): the flash comes first and the sequence write second, so
\* a step the sequence thread writes never replaces, on a fixture whose
\* priority flash is in progress, the colour the next frame carries: the
\* cells of such a fixture are after the step what they were before it.
C31_FlashBeforeSequence ==
    [][(seq_pc = "apply" /\ seq_pc' = "advance")
          => \A name \in FixtureNames :
                UnderPriorityFlash(name)
                => FixtureCells(dmx_buffer', name) = FixtureCells(dmx_buffer, name)]_vars
\* ------------------------------------------------------------------------
\* buffer_lock: the refresh thread and the handlers of the audio thread
\* ------------------------------------------------------------------------
\* `with self.buffer_lock` of _refresh_loop (line 52): the refresh thread
\* takes the lock; with nothing to send it leaves the block at once,
\* otherwise it enters client.send_dmx with the lock in hand
RefreshAcquire ==
    /\ refresh_pc = "test"
    /\ buffer_lock = "free"
    /\ IF RefreshDue
       THEN buffer_lock' = "refresh" /\ refresh_pc' = "sendto"
       ELSE buffer_lock' = "free" /\ refresh_pc' = "sleep"
    /\ UNCHANGED <<codecVars, dmx_buffer, schedVars, detVars, audVars, paintVars, flashVars,
                   apiVars, threadVars, audio_pc, refresh_running, last_sent_buffer, clock,
                   frame_gap, last_frame, stop_pc>>

\* socket.sendto returns, last_sent_buffer is marked and the `with` block of
\* line 52 ends
RefreshSent(net_ok) ==
    /\ refresh_pc = "sendto"
    /\ buffer_lock = "refresh"
    /\ RefreshSend(net_ok)
    /\ refresh_pc' = "sleep"
    /\ buffer_lock' = "free"
    /\ UNCHANGED <<socket_open, tx_call, rx_datagram, dmx_receive_buffer, dmx_buffer,
                   schedVars, detVars, audVars, paintVars, flashVars, apiVars, threadVars,
                   audio_pc, refresh_running, clock, stop_pc>>

\* sustained_start on the audio thread: start_sequence_for_band, which takes
\* no lock
AudioStartSequence(band, intensity) ==
    /\ audio_pc.at = "idle"
    /\ StartSequenceForBand(band, intensity)

\* sustained_end or fade_complete on the audio thread: stop_sequence finds
\* the band among the active sequences (line 68)
AudioStopSequence(band) ==
    /\ audio_pc.at = "idle"
    /\ band \in DOMAIN active_sequences
    /\ audio_pc' = [at |-> "apply", band |-> band, done |-> 0]
    /\ UNCHANGED <<codecVars, dmx_buffer, schedVars, detVars, audVars, paintVars, flashVars,
                   refreshVars, apiVars, threadVars, buffer_lock>>

\* apply_channels_to_fixture of line 75 reaches its `with self.buffer_lock`
AudioApplyAcquire ==
    /\ audio_pc.at = "apply"
    /\ buffer_lock = "free"
    /\ buffer_lock' = "audio"
    /\ audio_pc' = [audio_pc EXCEPT !.at = "write"]
    /\ UNCHANGED <<codecVars, dmx_buffer, schedVars, detVars, audVars, paintVars, flashVars,
                   refreshVars, apiVars, threadVars>>

\* the four cells of the fixture are set to 0 and the lock is released
AudioApplyWrite ==
    /\ audio_pc.at = "write"
    /\ buffer_lock = "audio"
    /\ LET fixtures == active_sequences[audio_pc.band].fixtures
           done == audio_pc.done + 1
       IN  /\ dmx_buffer' = ApplyChannels(dmx_buffer, FixtureByName(fixtures[done]), Black)
           /\ audio_pc' = [audio_pc EXCEPT !.done = done,
                                           !.at = IF done = Len(fixtures)
                                                  THEN "flush" ELSE "apply"]
    /\ buffer_lock' = "free"
    /\ UNCHANGED <<codecVars, schedVars, detVars, audVars, paintVars, flashVars,
                   refreshVars, apiVars, threadVars>>

\* flush_buffer of line 76 takes the lock and enters client.send_dmx
AudioFlushAcquire ==
    /\ audio_pc.at = "flush"
    /\ buffer_lock = "free"
    /\ buffer_lock' = "audio"
    /\ audio_pc' = [audio_pc EXCEPT !.at = "sendto"]
    /\ UNCHANGED <<codecVars, dmx_buffer, schedVars, detVars, audVars, paintVars, flashVars,
                   refreshVars, apiVars, threadVars>>

\* the send returns, flush_buffer releases the lock and stop_sequence
\* deletes the band's entry
AudioFlushSent(net_ok) ==
    /\ audio_pc.at = "sendto"
    /\ buffer_lock = "audio"
    /\ \E sent \in {Flush(dmx_buffer, net_ok)} :
          /\ wire' = sent.wire
          /\ send_result' = sent.ok
    /\ buffer_lock' = "free"
    /\ active_sequences' = DelEntry(active_sequences, audio_pc.band)
    /\ seq_info' = Detach(audio_pc.band)
    /\ audio_pc' = AudioIdlePc
    /\ UNCHANGED <<socket_open, tx_call, rx_datagram, dmx_receive_buffer, dmx_buffer,
                   detVars, audVars, paintVars, flashVars, refreshVars, apiVars, threadVars,
                   running, loop_elapsed, seq_pc, flash_priority_system, fixtures_decay,
                   main_pc, kick_result, target_channels>>

\* apply_channels_to_fixture called by the UI thread: the write under the
\* lock as one step
UiWrite(value) ==
    /\ buffer_lock = "free"
    /\ WriteFixture(value)

InitLock ==
    /\ CodecIdle /\ DmxInit /\ SchedIdle /\ DetIdle /\ AudIdle /\ PaintIdle /\ FlashIdle
    /\ ApiIdle /\ ConcIdle /\ RefreshIdle

\* the network takes every frame
NextLock ==
    \/ RefreshWake(0)
    \/ RefreshAcquire
    \/ RefreshSent(TRUE)
    \/ \E i \in StartIntensities : AudioStartSequence("Bass", i)
    \/ AudioStopSequence("Bass")
    \/ AudioApplyAcquire
    \/ AudioApplyWrite
    \/ AudioFlushAcquire
    \/ AudioFlushSent(TRUE)
    \/ UiWrite(255)

SpecLock == InitLock /\ [][NextLock]_vars

\* C32 (as claimed): whoever emits a frame has released buffer_lock before
\* the network send starts: while the refresh thread or flush_buffer is
\* inside the send, nobody holds the lock.
C32_NoSendUnderLock ==
    (refresh_pc = "sendto" \/ audio_pc.at = "sendto") => buffer_lock = "free"

\* C33 (as claimed): the audio thread never holds buffer_lock and is never at
\* an acquisition of it while the refresh thread holds it, in the handlers
\* of sustained_end and fade_complete included.
C33_AudioTakesNoLock ==
    /\ buffer_lock # "audio"
    /\ ~(audio_pc.at \in {"apply", "flush"} /\ buffer_lock = "refresh")
\* ------------------------------------------------------------------------
\* The life of the sequence thread: start_sequence, start_sequence_thread,
\* stop_sequence_thread, _sequence_loop and ArtNetManager.stop
\* ------------------------------------------------------------------------
Alive(t) == loop_pc[t] \in {"test", "body"}
Unborn == {t \in ThreadIds : loop_pc[t] = "unborn"}

\* start_sequence up to its test of self.running (lines 43-61): the band's
\* entry is stored; the caller goes on to start_sequence_thread when the
\* flag is down, and returns otherwise
StartSequenceTest(c, band, intensity) ==
    /\ call_pc[c] = "idle"
    /\ band_to_sequence[band] \in DOMAIN SequencesConfig
    /\ active_sequences' =
          SetEntry(active_sequences, band,
                   [sequence |-> band_to_sequence[band], fixtures |-> BandFixtures(band),
                    step_index |-> 0, step_elapsed |-> 0,
                    intensity |-> intensity, base_intensity |-> intensity])
    /\ call_pc' = [call_pc EXCEPT ![c] = IF running THEN "idle" ELSE "start_sequence"]
    /\ UNCHANGED <<codecVars, dmx_buffer, detVars, audVars, paintVars, flashVars,
                   refreshVars, apiVars, lockVars, sequence_thread, loop_pc, running,
                   loop_elapsed, seq_pc, seq_info, flash_priority_system, fixtures_decay,
                   main_pc, kick_result, target_channels>>

\* start_sequence_thread, its test of self.running (line 100), entered from
\* ArtNetManager.start or from start_sequence
StartThreadTest(c) ==
    /\ \/ call_pc[c] = "start_sequence"
       \/ call_pc[c] = "idle" /\ c = "ui" /\ stop_pc = "run"
    /\ call_pc' = [call_pc EXCEPT ![c] = IF running THEN "idle" ELSE "start_thread"]
    /\ UNCHANGED <<codecVars, dmx_buffer, schedVars, detVars, audVars, paintVars, flashVars,
                   refreshVars, apiVars, lockVars, sequence_thread, loop_pc>>

\* lines 101-103: the flag goes up and a new Thread runs _sequence_loop
StartThreadRun(c) ==
    /\ call_pc[c] = "start_thread"
    /\ Unborn # {}
    /\ LET t == CHOOSE x \in Unborn : \A y \in Unborn : x <= y
       IN  /\ sequence_thread' = t
           /\ loop_pc' = [loop_pc EXCEPT ![t] = "test"]
    /\ running' = TRUE
    /\ call_pc' = [call_pc EXCEPT ![c] = "idle"]
    /\ UNCHANGED <<codecVars, dmx_buffer, detVars, audVars, paintVars, flashVars,
                   refreshVars, apiVars, lockVars, active_sequences, loop_elapsed, seq_pc,
                   seq_info, flash_priority_system, fixtures_decay, main_pc, kick_result,
                   target_channels>>

\* `while self.running` of _sequence_loop (line 117)
LoopTest(t) ==
    /\ loop_pc[t] = "test"
    /\ loop_pc' = [loop_pc EXCEPT ![t] = IF running THEN "body" ELSE "ended"]
    /\ UNCHANGED <<codecVars, dmx_buffer, schedVars, detVars, audVars, paintVars, flashVars,
                   refreshVars, apiVars, lockVars, sequence_thread, call_pc>>

\* one turn of the loop (lines 118-170) and its sleep; due: the duration of
\* the current step has passed. No flash is fired here, so every fixture
\* passes the checks of _apply_sequence_step.
LoopTurn(t, due) ==
    /\ loop_pc[t] = "body"
    /\ loop_pc' = [loop_pc EXCEPT ![t] = "test"]
    /\ IF due /\ DOMAIN active_sequences # {}
       THEN \E band \in DOMAIN active_sequences :
               LET rec == active_sequences[band]
                   seq == SequencesConfig[rec.sequence]
                   wrapped == rec.step_index >= Len(seq.steps)
                   idx == IF wrapped THEN 0 ELSE rec.step_index
                   step == seq.steps[idx + 1]
               IN  IF wrapped /\ ~seq.loop
                   THEN UNCHANGED <<dmx_buffer, active_sequences>>
                   ELSE /\ dmx_buffer' = ApplyScene(dmx_buffer, step.scene, rec.fixtures,
                                                    rec.intensity, step.intensity_multiplier)
                        /\ active_sequences' =
                              [active_sequences EXCEPT ![band].step_index = idx + 1,
                                                       ![band].step_elapsed = 0]
       ELSE UNCHANGED <<dmx_buffer, active_sequences>>
    /\ UNCHANGED <<codecVars, detVars, audVars, paintVars, flashVars, refreshVars, apiVars,
                   lockVars, sequence_thread, call_pc, running, loop_elapsed, seq_pc,
                   seq_info, flash_priority_system, fixtures_decay, main_pc, kick_result,
                   target_channels>>

\* ArtNetManager.stop, lines 69-72: stop_sequence_thread lowers the flag and
\* joins the latest Thread
StopSequenceThread ==
    /\ stop_pc = "run"
    /\ call_pc["ui"] = "idle"
    /\ running' = FALSE
    /\ call_pc' = [call_pc EXCEPT !["ui"] = "join"]
    /\ UNCHANGED <<codecVars, dmx_buffer, detVars, audVars, paintVars, flashVars,
                   refreshVars, apiVars, lockVars, sequence_thread, loop_pc,
                   active_sequences, loop_elapsed, seq_pc, seq_info, flash_priority_system,
                   fixtures_decay, main_pc, kick_result, target_channels>>

\* the join of line 110 is over: there was no Thread, or it has ended, or
\* the flag went up again and the second of the timeout has passed
JoinOver ==
    IF sequence_thread = 0 THEN TRUE
    ELSE ~Alive(sequence_thread) \/ running

\* ArtNetManager.stop, lines 75-78: clear_all_channels, then
\* DMXController.close ends the refresh thread, clears again and closes the
\* client; stop returns
StopReturn ==
    /\ call_pc["ui"] = "join"
    /\ JoinOver
    /\ call_pc' = [call_pc EXCEPT !["ui"] = "idle"]
    /\ dmx_buffer' = [i \in 0..(DmxSize - 1) |-> 0]
    /\ socket_open' = FALSE
    /\ refresh_running' = FALSE
    /\ refresh_pc' = "done"
    /\ stop_pc' = "closed"
    /\ UNCHANGED <<tx_call, wire, send_result, rx_datagram, dmx_receive_buffer, schedVars,
                   detVars, audVars, paintVars, flashVars, apiVars, lockVars,
                   sequence_thread, loop_pc, last_sent_buffer, clock, frame_gap,
                   last_frame>>

InitThreads ==
    /\ CodecIdle /\ DmxInit /\ SchedIdle /\ DetIdle /\ AudIdle /\ PaintIdle /\ FlashIdle
    /\ ApiIdle /\ ConcIdle /\ RefreshIdle

NextThreads ==
    \/ \E i \in StartIntensities : StartSequenceTest("audio", "Bass", i)
    \/ \E c \in Callers : StartThreadTest(c)
    \/ \E c \in Callers : StartThreadRun(c)
    \/ \E t \in ThreadIds : LoopTest(t)
    \/ \E t \in ThreadIds, due \in BOOLEAN : LoopTurn(t, due)
    \/ StopSequenceThread
    \/ StopReturn

SpecThreads == InitThreads /\ [][NextThreads]_vars

\* C39 (as claimed): at any time at most one Thread is inside
\* _sequence_loop, whatever the order in which start_sequence,
\* start_sequence_thread and stop_sequence_thread run on their threads.
C39_OneSequenceThread ==
    Cardinality({t \in ThreadIds : Alive(t)}) <= 1

\* C40 (as claimed): once ArtNetManager.stop has returned the flag of the
\* sequence loop is down, no Thread is inside the loop and every cell of the
\* universe is 0, and this stays so whatever event arrives later.
C40_StoppedForGood ==
    (stop_pc = "closed" /\ call_pc["ui"] = "idle")
    => /\ ~running
       /\ \A t \in ThreadIds : ~Alive(t)
       /\ \A i \in DOMAIN dmx_buffer : dmx_buffer[i] = 0
====
